---------------------------- MODULE Spec2Model ----------------------------
(***************************************************************************)
(* Model of the copy-on-write session filesystem of fake_server            *)
(* (src/fs.go, src/fs_data.go), the SFTP adapter (src/srv_sftp.go) and the *)
(* shell commands built on them (src/unnamed/part_002, part_000).          *)
(*                                                                         *)
(* Go values are modelled as follows.                                      *)
(*  - A path is the sequence of its components: "/tmp/x" is <<"tmp","x">>  *)
(*    and "/" is <<>>.                                                     *)
(*  - A []byte is a slice header [arr, len, cap] over a backing array kept *)
(*    in heap; two headers with the same arr share their bytes, as in Go.  *)
(*    Every slice of the program starts at index 0 of its array.           *)
(*  - The overlay map is a function whose DOMAIN is the set of keys of the *)
(*    Go map; the value Nil is the nil *FileEntry (a tombstone).           *)
(*  - time.Now() is T0 during initFS and TNow at every later call.         *)
(*  - File sizes are scaled: MaxFileSize is 6 bytes instead of 5 MiB.      *)
(***************************************************************************)
EXTENDS Integers, Sequences, FiniteSets, TLC

VARIABLES
    BaseFS,          \* fs_data.go: BaseFS map, path -> FileEntry
    BaseFSDirCache,  \* fs_data.go: directory -> paths of its BaseFS children
    overlay,         \* fs.go: SessionFS.overlay of GlobalSessionFS
    cwd,             \* fs.go: SessionFS.cwd of GlobalSessionFS
    heap,            \* backing arrays of every []byte that is alive
    last,            \* the call that produced this state, and what it returned
    fuel,            \* number of calls the behaviour may still make
    active,          \* sessions whose connection is open
    tasks,           \* goroutines running SessionFS calls concurrently
    term,            \* part_000: the fields of one Terminal and its goroutines
    pl,              \* part_000: one call of runPipelineWithOutput
    conn             \* the connection under a Terminal: its stream and its bytes

vars == <<BaseFS, BaseFSDirCache, overlay, cwd, heap, last, fuel, active, tasks,
          term, pl, conn>>

\* the value of term, pl and conn in the specifications that do not run them
Idle == [on |-> FALSE]

-----------------------------------------------------------------------------
(* Constants of the program and bounds of the model *)

\* fs.go:18 (5 << 20 in the program, scaled down)
MaxFileSize == 6

\* number of calls in one behaviour of Spec
MaxOps == 3

\* number of calls in one behaviour of SpecGrow
MaxGrowOps == 5

\* number of steps in one behaviour of SpecSess
MaxSessOps == 4

\* number of goroutines in one behaviour of SpecConc
MaxTasks == 3

\* number of sequential calls before the goroutines of SpecConc start
MaxPrelude == 1

\* os.ModeDir, the directory bit of os.FileMode. It is bit 31 in Go; the
\* model puts it at bit 20, still above the nine permission bits, to stay
\* inside the model checker's integers.
ModeDir == 1048576

\* the permission bits 0777
PermMask == 511

T0 == 0
TNow == 1

Max2(a, b) == IF a > b THEN a ELSE b

-----------------------------------------------------------------------------
(* Paths *)

Root == <<>>
pEtc == <<"etc">>
pHosts == <<"etc", "hosts">>
pTmp == <<"tmp">>
pX == <<"tmp", "x">>
pY == <<"tmp", "y">>
pRoot == <<"root">>
pTmpHosts == <<"tmp", "hosts">>

\* every normalised path of the model, in a fixed order
PathList == <<Root, pEtc, pHosts, pTmp, pX, pY, pRoot, pTmpHosts>>

Paths == {PathList[i] : i \in 1..Len(PathList)}

\* path.Clean on an absolute path: drops "" and ".", resolves ".."
RECURSIVE CleanFrom(_, _)
CleanFrom(todo, done) ==
    IF todo = <<>> THEN done
    ELSE LET c == Head(todo) IN
         IF c = "" \/ c = "." THEN CleanFrom(Tail(todo), done)
         ELSE IF c = ".."
              THEN CleanFrom(Tail(todo),
                             IF done = <<>> THEN done
                             ELSE SubSeq(done, 1, Len(done) - 1))
              ELSE CleanFrom(Tail(todo), Append(done, c))

Clean(p) == CleanFrom(p, <<>>)

\* path.Dir of a clean absolute path ("/" is its own parent)
Dir(p) == IF p = <<>> THEN <<>> ELSE SubSeq(p, 1, Len(p) - 1)

\* path.Base of a clean absolute path
Base(p) == IF p = <<>> THEN "/" ELSE p[Len(p)]

\* path.Join(dir, name)
Join(d, name) == Clean(Append(d, name))

-----------------------------------------------------------------------------
(* Byte slices and the heap *)

NilSlice == [arr |-> 0, len |-> 0, cap |-> 0]

Zeros(n) == [i \in 1..n |-> 0]

\* the bytes a slice header denotes
Bytes(hp, s) == IF s.len = 0 THEN <<>> ELSE SubSeq(hp[s.arr], 1, s.len)

\* an array identifier that is not in use
FreshArr(hp) == CHOOSE a \in 1..(Cardinality(DOMAIN hp) + 1) : a \notin DOMAIN hp

\* make([]byte, n, c) followed by copy(new, src): a new array of c bytes
\* whose first n bytes are those of src
MakeCopy(hp, src, n, c) ==
    IF c = 0 THEN [hp |-> hp, s |-> NilSlice]
    ELSE LET a == FreshArr(hp)
             body == [i \in 1..c |-> IF i <= n /\ i <= src.len
                                     THEN hp[src.arr][i] ELSE 0]
         IN [hp |-> [x \in DOMAIN hp \cup {a} |-> IF x = a THEN body ELSE hp[x]],
             s  |-> [arr |-> a, len |-> n, cap |-> c]]

\* a []byte the caller builds from the byte sequence b (cap = len)
NewBytes(hp, b) ==
    IF b = <<>> THEN [hp |-> hp, s |-> NilSlice]
    ELSE LET a == FreshArr(hp) IN
         [hp |-> [x \in DOMAIN hp \cup {a} |-> IF x = a THEN b ELSE hp[x]],
          s  |-> [arr |-> a, len |-> Len(b), cap |-> Len(b)]]

-----------------------------------------------------------------------------
(* FileEntry and the base image *)

Nil == [isNil |-> TRUE]

NotFound == [ok |-> FALSE]

Put(m, k, v) == [x \in DOMAIN m \cup {k} |-> IF x = k THEN v ELSE m[x]]

\* the directories initFS creates (fs_data.go:45-63), restricted to Paths
BaseDirs == {Root, pEtc, pTmp, pRoot}

\* the files initFS adds (fs_data.go:113-152), restricted to Paths:
\* /etc/hosts, whose content is the byte 1 repeated
BaseFiles == <<pHosts>>

BaseContent(p) == <<1, 1, 1>>

\* the array initFS allocates for the i-th base file
BaseArr(i) == i

InitBaseFS ==
    [p \in BaseDirs \cup {BaseFiles[i] : i \in 1..Len(BaseFiles)} |->
        IF p \in BaseDirs
        THEN [Name |-> Base(p), IsDir |-> TRUE, Content |-> NilSlice,
              Mode |-> 493 + ModeDir, ModTime |-> T0,
              UID |-> 0, GID |-> 0, Nlink |-> 2]
        ELSE LET i == CHOOSE j \in 1..Len(BaseFiles) : BaseFiles[j] = p IN
             [Name |-> Base(p), IsDir |-> FALSE,
              Content |-> [arr |-> BaseArr(i), len |-> Len(BaseContent(p)),
                           cap |-> Len(BaseContent(p))],
              Mode |-> 420, ModTime |-> T0,
              UID |-> 0, GID |-> 0, Nlink |-> 1]]

InitHeap == [a \in {BaseArr(i) : i \in 1..Len(BaseFiles)} |->
                BaseContent(BaseFiles[a])]

\* fs_data.go:155-160: the children index built once from BaseFS
InitDirCache ==
    [d \in {Dir(p) : p \in DOMAIN InitBaseFS \ {Root}} |->
        {p \in DOMAIN InitBaseFS : p # Dir(p) /\ Dir(p) = d}]

-----------------------------------------------------------------------------
(* SessionFS: reads (fs.go) *)

\* fs.go:67-88. ov is the overlay map; the result holds the entry and the
\* layer it was found in.
GetEntry(ov, p) ==
    LET q == Clean(p) IN
    IF q \in DOMAIN ov
    THEN IF ov[q] = Nil THEN NotFound
         ELSE [ok |-> TRUE, e |-> ov[q], layer |-> "overlay"]
    ELSE IF q \in DOMAIN BaseFS
         THEN [ok |-> TRUE, e |-> BaseFS[q], layer |-> "base"]
         ELSE NotFound

\* an order of the names of the model, used to number the paths
NameOrder == <<"/", "etc", "hosts", "root", "tmp", "x", "y", "Z">>

NameRank(n) == CHOOSE i \in 1..Len(NameOrder) : NameOrder[i] = n

\* the bytes of a name
NameBytes(n) ==
    CASE n = "/"     -> <<47>>
      [] n = "etc"   -> <<101, 116, 99>>
      [] n = "hosts" -> <<104, 111, 115, 116, 115>>
      [] n = "root"  -> <<114, 111, 111, 116>>
      [] n = "tmp"   -> <<116, 109, 112>>
      [] n = "x"     -> <<120>>
      [] n = "y"     -> <<121>>
      [] n = "Z"     -> <<90>>

\* strings.ToLower on ASCII bytes
ToLower(b) == [i \in DOMAIN b |-> IF b[i] >= 65 /\ b[i] <= 90 THEN b[i] + 32 ELSE b[i]]

\* Go's < on strings: byte-wise lexicographic order
StrLess(a, b) ==
    \/ Len(a) < Len(b) /\ SubSeq(b, 1, Len(a)) = a
    \/ \E i \in 1..(IF Len(a) < Len(b) THEN Len(a) ELSE Len(b)) :
          /\ SubSeq(a, 1, i - 1) = SubSeq(b, 1, i - 1)
          /\ a[i] < b[i]

\* a wrong comparison: the names as they are, upper case before lower case
LessLower_noFold(n, m) == StrLess(NameBytes(n), NameBytes(m))

\* fs.go:128: strings.ToLower(res[i].Name) < strings.ToLower(res[j].Name)
LessLower(n, m) == StrLess(ToLower(NameBytes(n)), ToLower(NameBytes(m)))

\* fs.go:127-129: sort.Slice with that comparison (the names of one
\* listing are distinct, and so are their lower-case forms in the model)
RECURSIVE SortNames(_)
SortNames(S) ==
    IF S = {} THEN <<>>
    ELSE LET m == CHOOSE x \in S : \A y \in S : ~LessLower(y, x)
         IN <<m>> \o SortNames(S \ {m})

\* fs.go:98-120: the items map of ListDir, name -> entry
ListItems(ov, d) ==
    LET baseKids == IF d \in DOMAIN BaseFSDirCache THEN BaseFSDirCache[d] ELSE {}
        ovKids   == {k \in DOMAIN ov : Dir(k) = d /\ k # d}
        dead     == {Base(k) : k \in {x \in ovKids : ov[x] = Nil}}
        live     == {k \in ovKids : ov[k] # Nil}
        names    == ({BaseFS[c].Name : c \in baseKids} \ dead)
                    \cup {ov[k].Name : k \in live}
    IN [n \in names |->
          IF \E k \in live : ov[k].Name = n
          THEN ov[CHOOSE k \in live : ov[k].Name = n]
          ELSE BaseFS[CHOOSE c \in baseKids : BaseFS[c].Name = n]]

\* fs.go:91-131: the names of the listing in order, or ErrNotExist
ListDir(ov, dirPath) ==
    LET d == Clean(dirPath)
        g == GetEntry(ov, d)
    IN IF ~g.ok \/ ~g.e.IsDir
       THEN [err |-> "ErrNotExist", names |-> <<>>]
       ELSE [err |-> "ok", names |-> SortNames(DOMAIN ListItems(ov, d))]

-----------------------------------------------------------------------------
(* SessionFS: mutations (fs.go).  st is [ov, hp]: the overlay and the heap. *)

\* a wrong quota test: it refuses a content of exactly MaxFileSize bytes
WriteOverQuota_offByOne(n) == n >= MaxFileSize

\* fs.go:137: the quota test of Write
WriteOverQuota(n) == n > MaxFileSize

\* a wrong store: an entry already in the overlay keeps its old content
WriteStore_keepsContent(ov, q, data, mode) ==
    IF q \in DOMAIN ov /\ ov[q] # Nil
    THEN [ov EXCEPT ![q] = [@ EXCEPT !.ModTime = TNow,
                                     !.Mode = IF mode # 0 THEN mode ELSE @]]
    ELSE Put(ov, q, [Name |-> Base(q), IsDir |-> FALSE, Content |-> data,
                     Mode |-> IF mode # 0 THEN mode ELSE 420, ModTime |-> TNow,
                     UID |-> 0, GID |-> 0, Nlink |-> 1])

\* fs.go:142-174: what Write stores at the clean path q
WriteStore(ov, q, data, mode) ==
    IF q \in DOMAIN ov /\ ov[q] # Nil
    THEN [ov EXCEPT ![q] = [@ EXCEPT !.Content = data,
                                     !.ModTime = TNow,
                                     !.Mode = IF mode # 0 THEN mode ELSE @]]
    ELSE LET ok == q \in DOMAIN BaseFS
             m  == IF mode # 0 THEN mode
                   ELSE IF ok THEN BaseFS[q].Mode ELSE 420
         IN Put(ov, q, [Name |-> Base(q), IsDir |-> FALSE, Content |-> data,
                        Mode |-> m, ModTime |-> TNow,
                        UID |-> IF ok THEN BaseFS[q].UID ELSE 0,
                        GID |-> IF ok THEN BaseFS[q].GID ELSE 0,
                        Nlink |-> 1])

\* fs.go:133-176. data is the caller's slice header: Write keeps it as it is.
Write(st, p, data, mode) ==
    IF WriteOverQuota(data.len)
    THEN [st |-> st, err |-> "quota"]
    ELSE [st |-> [st EXCEPT !.ov = WriteStore(st.ov, Clean(p), data, mode)],
          err |-> "ok"]

\* fs.go:178-190
Mkdir(st, p) ==
    [st |-> [st EXCEPT !.ov =
                Put(st.ov, Clean(p),
                    [Name |-> Base(Clean(p)), IsDir |-> TRUE,
                     Content |-> NilSlice, Mode |-> 493 + ModeDir,
                     ModTime |-> TNow, UID |-> 0, GID |-> 0, Nlink |-> 2])],
     err |-> "ok"]

\* fs.go:192-198
Remove(st, p) ==
    [st |-> [st EXCEPT !.ov = Put(st.ov, Clean(p), Nil)], err |-> "ok"]

\* a wrong Rename: the source is not tombstoned
RenameStore_keepsSource(ov, oldP, newP, e) == Put(ov, newP, e)

\* fs.go:215-218: the two map stores of Rename, in program order
RenameStore(ov, oldP, newP, e) == Put(Put(ov, newP, e), oldP, Nil)

\* fs.go:200-220. The copy shares the content array of the source; the
\* keys are used as given (Rename does not clean them).
Rename(st, oldP, newP) ==
    LET g == GetEntry(st.ov, oldP) IN
    IF ~g.ok THEN [st |-> st, err |-> "ErrNotExist"]
    ELSE [st |-> [st EXCEPT !.ov =
                    RenameStore(st.ov, oldP, newP,
                                [g.e EXCEPT !.Name = Base(newP),
                                            !.ModTime = TNow])],
          err |-> "ok"]

\* a wrong Chmod: the whole mode is replaced, type bits included
ChmodBits_wholeMode(old, mode) == mode

\* fs.go:235 and 241: (Mode &^ 0777) | (mode & 0777)
ChmodBits(old, mode) == (old - (old % (PermMask + 1))) + (mode % (PermMask + 1))

\* fs.go:222-248
Chmod(st, p, mode) ==
    LET g == GetEntry(st.ov, p) IN
    IF ~g.ok THEN [st |-> st, err |-> "ErrNotExist"]
    ELSE IF p \in DOMAIN st.ov /\ st.ov[p] # Nil
         THEN [st |-> [st EXCEPT !.ov[p] =
                          [@ EXCEPT !.Mode = ChmodBits(@, mode),
                                    !.ModTime = TNow]],
               err |-> "ok"]
         ELSE [st |-> [st EXCEPT !.ov =
                          Put(st.ov, p, [g.e EXCEPT !.Mode = ChmodBits(@, mode),
                                                    !.ModTime = TNow])],
               err |-> "ok"]

\* fs.go:261-266 and 271-276: -1 keeps the field
ChownField(old, new) == IF new # -1 THEN new ELSE old

\* fs.go:250-282
Chown(st, p, uid, gid) ==
    LET g == GetEntry(st.ov, p) IN
    IF ~g.ok THEN [st |-> st, err |-> "ErrNotExist"]
    ELSE IF p \in DOMAIN st.ov /\ st.ov[p] # Nil
         THEN [st |-> [st EXCEPT !.ov[p] =
                          [@ EXCEPT !.UID = ChownField(@, uid),
                                    !.GID = ChownField(@, gid),
                                    !.ModTime = TNow]],
               err |-> "ok"]
         ELSE [st |-> [st EXCEPT !.ov =
                          Put(st.ov, p, [g.e EXCEPT !.UID = ChownField(@, uid),
                                                    !.GID = ChownField(@, gid),
                                                    !.ModTime = TNow])],
               err |-> "ok"]

-----------------------------------------------------------------------------
(* SFTP adapter (srv_sftp.go) *)

\* srv_sftp.go:97-132: phase one of WriteAt, under the overlay lock: find
\* the entry of the key w.path (used as given) or build it from BaseFS
WriteAtFind(st, path, n, off) ==
    IF path \in DOMAIN st.ov /\ st.ov[path] # Nil
    THEN st
    ELSE LET inBase  == path \in DOMAIN BaseFS
             baseC   == IF inBase THEN BaseFS[path].Content ELSE NilSlice
             initCap == Max2(baseC.len, off + n)
             m       == MakeCopy(st.hp, baseC, baseC.len, initCap)
         IN [ov |-> Put(st.ov, path,
                        [Name |-> Base(path), IsDir |-> FALSE, Content |-> m.s,
                         Mode |-> IF inBase THEN BaseFS[path].Mode ELSE 420,
                         ModTime |-> TNow,
                         UID |-> IF inBase THEN BaseFS[path].UID ELSE 0,
                         GID |-> IF inBase THEN BaseFS[path].GID ELSE 0,
                         Nlink |-> 0]),
             hp |-> m.hp]

\* a wrong WriteAt: no quota test
WriteAtOverQuota_never(end) == FALSE

\* srv_sftp.go:139: the quota test of WriteAt
WriteAtOverQuota(end) == end > MaxFileSize

\* srv_sftp.go:144-159: the capacity of the slice after the growth check
GrowCap(c, end) ==
    IF end > c THEN
        LET d == IF end < c * 2 THEN c * 2 ELSE end
        IN IF d > MaxFileSize THEN MaxFileSize ELSE d
    ELSE c

\* srv_sftp.go:167: copy(content[off:], p) on the array of the slice s
CopyInto(hp, s, off, p) ==
    IF Len(p) = 0 THEN hp
    ELSE [hp EXCEPT ![s.arr] =
            [i \in 1..Len(@) |->
                IF i > off /\ i <= off + Len(p) /\ i <= s.len
                THEN p[i - off] ELSE @[i]]]

\* srv_sftp.go:135-170: phase two of WriteAt, under the entry's lock, on
\* the entry found in phase one (the one stored at key)
WriteAtCopy(st, key, p, off) ==
    LET e   == st.ov[key]
        end == off + Len(p)
    IN IF WriteAtOverQuota(end) THEN [st |-> st, err |-> "quota", n |-> 0]
       ELSE LET c0 == e.Content
                g  == IF end > c0.cap
                      THEN MakeCopy(st.hp, c0, c0.len, GrowCap(c0.cap, end))
                      ELSE [hp |-> st.hp, s |-> c0]
                c1 == IF end > g.s.len THEN [g.s EXCEPT !.len = end] ELSE g.s
            IN [st |-> [ov |-> [st.ov EXCEPT ![key] =
                                  [@ EXCEPT !.Content = c1, !.ModTime = TNow]],
                        hp |-> CopyInto(g.hp, c1, off, p)],
                err |-> "ok", n |-> Len(p)]

\* srv_sftp.go:94-171
WriteAt(st, path, p, off) ==
    WriteAtCopy(WriteAtFind(st, path, Len(p), off), path, p, off)

\* srv_sftp.go:20-34, and the reader read to EOF
Fileread(st, path) ==
    LET g == GetEntry(st.ov, path) IN
    IF ~g.ok THEN [err |-> "ErrNotExist", out |-> <<>>]
    ELSE [err |-> "ok", out |-> Bytes(st.hp, g.e.Content)]

-----------------------------------------------------------------------------
(* Array identifiers are renamed after every call so that two heaps that   *)
(* differ only in the names of their arrays are one state; arrays no slice *)
(* refers to are dropped (garbage collection).                             *)

NB == Len(BaseFiles)

SetMin(S) == CHOOSE x \in S : \A y \in S : x <= y

\* a number that orders the paths: the names of a path as base-8 digits
RECURSIVE PathNum(_)
PathNum(p) ==
    IF p = <<>> THEN 0
    ELSE PathNum(SubSeq(p, 1, Len(p) - 1)) * 8 + NameRank(p[Len(p)])

\* above the number of every path of up to six names
HeldBase == 8 * 8 * 8 * 8 * 8 * 8 * 8

Refs(ov, held, a) ==
    {PathNum(k) : k \in {x \in DOMAIN ov : ov[x] # Nil /\ ov[x].Content.arr = a}}
    \cup {HeldBase + t : t \in {x \in DOMAIN held : held[x].arr = a}}

NewId(ov, held, a) ==
    IF a = 0 THEN 0 ELSE IF a <= NB THEN a ELSE NB + SetMin(Refs(ov, held, a))

Normalise(st, held) ==
    LET live == {a \in DOMAIN st.hp : a <= NB \/ Refs(st.ov, held, a) # {}}
        id(a) == NewId(st.ov, held, a)
    IN [ov |-> [k \in DOMAIN st.ov |->
                  IF st.ov[k] = Nil THEN Nil
                  ELSE [st.ov[k] EXCEPT !.Content.arr = id(@)]],
        hp |-> [n \in {id(a) : a \in live} |->
                  st.hp[CHOOSE a \in live : id(a) = n]],
        held |-> [t \in DOMAIN held |-> [held[t] EXCEPT !.arr = id(@)]]]

-----------------------------------------------------------------------------
(* Inputs of the calls *)

\* paths the calls are made on: a file of the base image and a new file
FilePaths == {pHosts, pX}

\* destinations of cp, mv and Rename: a file, a new name and a directory
DstPaths == {pX, pY, pTmp}

\* a content of exactly n bytes
Fill(n) == [i \in 1..n |-> 2]

\* contents and modes given to Write: empty, short, exactly the quota, one
\* byte more; mode 0 keeps the mode, 0600 sets it
WArgs == {<<<<>>, 0>>, <<<<2>>, 0>>, <<<<2>>, 384>>,
          <<Fill(MaxFileSize), 0>>, <<Fill(MaxFileSize + 1), 0>>}

\* payloads and offsets given to WriteAt: inside the file, past its end,
\* ending exactly at the quota and past the quota
AData == {<<3>>, <<3, 3>>}
Offs == {0, 2, MaxFileSize - 1, MaxFileSize}

\* how p resolves: "overlay", "tomb", "base" or "absent"
Kind(ov, p) ==
    IF p \in DOMAIN ov THEN (IF ov[p] = Nil THEN "tomb" ELSE "overlay")
    ELSE IF p \in DOMAIN BaseFS THEN "base" ELSE "absent"

\* the content bytes p resolves to (empty when it does not resolve)
ContentOf(ov, hp, p) ==
    LET g == GetEntry(ov, p) IN IF g.ok THEN Bytes(hp, g.e.Content) ELSE <<>>

St == [ov |-> overlay, hp |-> heap]

NoHeld == <<>>

\* the record of a call: who made it ("-" when the caller is not a session of
\* the model), its name and arguments, what it returned, and how
\* its first path resolved before it
Call(op, p, p2, data, off, err, out) ==
    [op |-> op, p |-> p, p2 |-> p2, data |-> data, off |-> off,
     err |-> err, out |-> out, by |-> "-",
     pre |-> Kind(overlay, p), was |-> ContentOf(overlay, heap, p)]

NoCall ==
    [op |-> "none", p |-> Root, p2 |-> Root, data |-> <<>>, off |-> 0,
     err |-> "ok", out |-> <<>>, by |-> "-", pre |-> "base", was |-> <<>>]

\* the state after a call of the sequential model
Commit(st, call) ==
    LET n == Normalise(st, NoHeld) IN
    /\ overlay' = n.ov
    /\ heap' = n.hp
    /\ last' = call
    /\ fuel' = fuel - 1
    /\ UNCHANGED <<BaseFS, BaseFSDirCache, cwd, active, tasks, term, pl, conn>>

-----------------------------------------------------------------------------
(* Calls on the session filesystem, one at a time *)

\* SessionFS.Write called with a buffer of the caller's
DoWrite(p, d, m) ==
    /\ fuel > 0
    /\ LET b == NewBytes(heap, d)
           r == Write([ov |-> overlay, hp |-> b.hp], p, b.s, m)
       IN Commit(r.st, Call("Write", p, Root, d, 0, r.err, <<>>))

\* part_000:405-408: `cmd > path` writes the collected output with mode 0644
DoRedirect(p, d) ==
    /\ fuel > 0
    /\ LET b == NewBytes(heap, d)
           r == Write([ov |-> overlay, hp |-> b.hp], Clean(p), b.s, 420)
       IN Commit(r.st, Call("Redirect", p, Root, d, 0, r.err, <<>>))

DoWriteAt(p, d, off) ==
    /\ fuel > 0
    /\ LET r == WriteAt(St, p, d, off)
       IN Commit(r.st, Call("WriteAt", p, Root, d, off, r.err, <<>>))

DoMkdir(p) ==
    /\ fuel > 0
    /\ LET r == Mkdir(St, p) IN Commit(r.st, Call("Mkdir", p, Root, <<>>, 0, r.err, <<>>))

DoRemove(p) ==
    /\ fuel > 0
    /\ LET r == Remove(St, p) IN Commit(r.st, Call("Remove", p, Root, <<>>, 0, r.err, <<>>))

DoRename(a, b) ==
    /\ fuel > 0
    /\ LET r == Rename(St, a, b) IN Commit(r.st, Call("Rename", a, b, <<>>, 0, r.err, <<>>))

DoChmod(p, m) ==
    /\ fuel > 0
    /\ LET r == Chmod(St, p, m) IN Commit(r.st, Call("Chmod", p, Root, <<>>, m, r.err, <<>>))

DoChown(p, u, g) ==
    /\ fuel > 0
    /\ LET r == Chown(St, p, u, g) IN Commit(r.st, Call("Chown", p, Root, <<>>, 0, r.err, <<>>))

\* part_002:194-211: cp src dst
Cp(st, src, dst) ==
    LET g == GetEntry(st.ov, Clean(src)) IN
    IF ~g.ok \/ g.e.IsDir THEN [st |-> st, err |-> "1"]
    ELSE LET d  == GetEntry(st.ov, Clean(dst))
             to == IF d.ok /\ d.e.IsDir THEN Join(Clean(dst), g.e.Name)
                   ELSE Clean(dst)
             r  == Write(st, to, g.e.Content, g.e.Mode)
         IN [st |-> r.st, err |-> "0"]

DoCp(a, b) ==
    /\ fuel > 0
    /\ LET r == Cp(St, a, b) IN Commit(r.st, Call("cp", a, b, <<>>, 0, r.err, <<>>))

\* part_002:213-224: mv src dst
Mv(st, src, dst) ==
    LET d  == GetEntry(st.ov, Clean(dst))
        to == IF d.ok /\ d.e.IsDir THEN Join(Clean(dst), Base(Clean(src)))
              ELSE Clean(dst)
        r  == Rename(st, Clean(src), to)
    IN [st |-> r.st, err |-> IF r.err = "ok" THEN "0" ELSE "1"]

DoMv(a, b) ==
    /\ fuel > 0
    /\ LET r == Mv(St, a, b) IN Commit(r.st, Call("mv", a, b, <<>>, 0, r.err, <<>>))

\* SFTP List of a directory (srv_sftp.go:65-74)
DoList(d) ==
    /\ fuel > 0
    /\ LET r == ListDir(overlay, d)
       IN Commit(St, Call("List", d, Root, <<>>, 0, r.err, r.names))

\* SFTP Open and Read to EOF (srv_sftp.go:20-34)
DoRead(p) ==
    /\ fuel > 0
    /\ LET r == Fileread(St, p)
       IN Commit(St, Call("Read", p, Root, <<>>, 0, r.err, r.out))

\* An SFTP client's Create(p), Write(b), Close, Open(p), Read to EOF and
\* List of the parent: Create is Filewrite (srv_sftp.go:37-40), which only
\* builds the writer; Write(b) is one WriteAt(b, 0); the rest are reads.
\* out is the bytes read back, followed by the names listed.
DoPutGet(p, b) ==
    /\ fuel > 0
    /\ LET w  == WriteAt(St, p, b, 0)
           rd == Fileread(w.st, p)
           ls == ListDir(w.st.ov, Dir(p))
       IN Commit(w.st, Call("PutGet", p, Root, b, 0, w.err, <<rd.out, ls.names>>))

Init ==
    /\ BaseFS = InitBaseFS
    /\ BaseFSDirCache = InitDirCache
    /\ overlay = <<>>
    /\ cwd = pRoot
    /\ heap = InitHeap
    /\ last = NoCall
    /\ fuel = MaxOps
    /\ active = {}
    /\ tasks = <<>>
    /\ term = Idle
    /\ pl = Idle
    /\ conn = Idle

Next ==
    \/ \E p \in FilePaths, a \in WArgs : DoWrite(p, a[1], a[2])
    \/ \E p \in FilePaths : DoRedirect(p, <<2, 2>>)
    \/ \E p \in FilePaths, d \in AData, off \in Offs : DoWriteAt(p, d, off)
    \/ \E p \in {pTmp, pX} : DoMkdir(p)
    \/ \E p \in FilePaths \cup {pTmp, <<"tmp", ".", "y">>} : DoRemove(p)
    \/ \E a \in FilePaths : \E b \in DstPaths \ {a} : DoRename(a, b)
    \/ \E p \in FilePaths : DoChmod(p, 511)
    \/ \E p \in FilePaths, ug \in {<<-1, 1000>>, <<1000, -1>>} : DoChown(p, ug[1], ug[2])
    \/ \E a \in FilePaths, b \in DstPaths : DoCp(a, b)
    \/ \E a \in FilePaths, b \in DstPaths : DoMv(a, b)
    \/ \E d \in {pTmp, pEtc} : DoList(d)
    \/ \E p \in FilePaths : DoRead(p)
    \/ \E p \in FilePaths, b \in {<<3>>, <<3, 3>>} : DoPutGet(p, b)

Spec == Init /\ [][Next]_vars

-----------------------------------------------------------------------------
(* Claims about the sequential calls *)

\* C1: after any sequence of calls every BaseFS entry's metadata and content
\* bytes are what initFS made them.
C1_BaseFSUnchanged ==
    /\ BaseFS = InitBaseFS
    /\ \A i \in 1..NB : heap[BaseArr(i)] = BaseContent(BaseFiles[i])

\* C3: a Write of at most MaxFileSize bytes succeeds, and right after a
\* successful Write(p, c, mode) GetEntry(p) is found with content c.
C3_ReadYourWrites ==
    last.op = "Write" =>
        /\ Len(last.data) <= MaxFileSize => last.err = "ok"
        /\ last.err = "ok" =>
              LET g == GetEntry(overlay, last.p) IN
              g.ok /\ Bytes(heap, g.e.Content) = last.data

\* C3 witness: a non-empty Write succeeded on a path that was tombstoned
C3_Witness ==
    /\ last.op = "Write" /\ last.err = "ok"
    /\ last.pre = "tomb" /\ last.data # <<>>

\* C5: after SFTP Create(p), Write(b), Close, the bytes read back from p are
\* exactly b and the listing of p's parent has p's name.
C5_PutGetRoundTrip ==
    (last.op = "PutGet" /\ last.err = "ok") =>
        /\ last.out[1] = last.data
        /\ \E i \in 1..Len(last.out[2]) : last.out[2][i] = Base(last.p)

\* C6, the state after Rename(a, b) with a # b: when a resolved, the call
\* succeeded, b has the content a had and a is not found; when a did not
\* resolve, the call failed with NotFound.
C6_RenameResult ==
    (last.op = "Rename" /\ last.p # last.p2) =>
        IF last.pre \in {"overlay", "base"}
        THEN /\ last.err = "ok"
             /\ GetEntry(overlay, last.p2).ok
             /\ ContentOf(overlay, heap, last.p2) = last.was
             /\ ~GetEntry(overlay, last.p).ok
        ELSE last.err = "ErrNotExist"

\* C6, the step of a Rename that fails: the overlay is unchanged.
C6_RenameFrame ==
    (last'.op = "Rename" /\ last'.err = "ErrNotExist") =>
        overlay' = overlay /\ heap' = heap

\* C6: Rename moves the content from a to b, or fails with NotFound and
\* leaves the overlay unchanged.
C6_Rename == [](C6_RenameResult) /\ [][C6_RenameFrame]_vars

\* C6 witness: a Rename of a file with content succeeded
C6_Witness ==
    /\ last.op = "Rename" /\ last.err = "ok"
    /\ last.pre = "overlay" /\ last.was # <<>>

\* C7: Write succeeds with exactly MaxFileSize bytes and fails with one more;
\* WriteAt succeeds when off + len(data) = MaxFileSize and fails when it is
\* MaxFileSize + 1.
C7_QuotaBoundary ==
    /\ (last.op = "Write" /\ Len(last.data) = MaxFileSize) => last.err = "ok"
    /\ (last.op = "Write" /\ Len(last.data) = MaxFileSize + 1) => last.err = "quota"
    /\ (last.op = "WriteAt" /\ last.off + Len(last.data) = MaxFileSize)
          => last.err = "ok"
    /\ (last.op = "WriteAt" /\ last.off + Len(last.data) = MaxFileSize + 1)
          => last.err = "quota"

\* C7 witness: a WriteAt that ends exactly at the quota succeeded and its
\* last byte is the last byte of the file
C7_Witness ==
    /\ last.op = "WriteAt" /\ last.err = "ok"
    /\ last.off + Len(last.data) = MaxFileSize
    /\ ContentOf(overlay, heap, last.p)[MaxFileSize] = 3

\* C8: every entry of the overlay and of BaseFS has at most MaxFileSize
\* content bytes.
C8_SizeWithinQuota ==
    /\ \A p \in DOMAIN overlay :
          overlay[p] # Nil => overlay[p].Content.len <= MaxFileSize
    /\ \A p \in DOMAIN BaseFS : BaseFS[p].Content.len <= MaxFileSize

\* C8 witness: WriteAt grew an existing file to exactly the quota
C8_Witness ==
    /\ last.op = "WriteAt" /\ last.err = "ok" /\ last.pre = "overlay"
    /\ Len(last.was) < MaxFileSize
    /\ overlay[last.p].Content.len = MaxFileSize

\* C10, reads: a tombstoned path is not found and is not listed.
C10_Hidden ==
    \A p \in DOMAIN overlay :
        overlay[p] = Nil =>
            /\ ~GetEntry(overlay, p).ok
            /\ LET l == ListDir(overlay, Dir(p)) IN
               \A i \in 1..Len(l.names) : l.names[i] # Base(p)

\* C10, re-creation: a file made by Write or WriteAt right after Remove(p)
\* of a BaseFS path holds only the bytes written.
C10_Recreated ==
    (/\ last.op = "Remove" /\ last.p \in DOMAIN BaseFS
     /\ last'.p = last.p /\ last'.err = "ok") =>
        /\ last'.op = "Write" =>
              ContentOf(overlay', heap', last.p) = last'.data
        /\ last'.op = "WriteAt" =>
              ContentOf(overlay', heap', last.p) = Zeros(last'.off) \o last'.data

\* C10: after Remove(p) of a BaseFS path nothing of BaseFS[p] is visible:
\* p is not found, not listed, and a re-created p has only the new bytes.
C10_TombstoneHides == [](C10_Hidden) /\ [][C10_Recreated]_vars

-----------------------------------------------------------------------------
(* Files that grow: WriteAt at increasing offsets on two new files, with   *)
(* cp, Rename and Write between them.                                      *)

GrowPaths == {pX, pY}

InitGrow ==
    /\ BaseFS = InitBaseFS
    /\ BaseFSDirCache = InitDirCache
    /\ overlay = <<>>
    /\ cwd = pRoot
    /\ heap = InitHeap
    /\ last = NoCall
    /\ fuel = MaxGrowOps
    /\ active = {}
    /\ tasks = <<>>
    /\ term = Idle
    /\ pl = Idle
    /\ conn = Idle

NextGrow ==
    \/ \E p \in GrowPaths, off \in 2..(MaxFileSize - 1) : DoWriteAt(p, <<3>>, off)
    \/ \E a \in GrowPaths : \E b \in GrowPaths \ {a} : DoCp(a, b)
    \/ \E a \in GrowPaths : \E b \in GrowPaths \ {a} : DoRename(a, b)
    \/ \E p \in GrowPaths : DoWrite(p, <<2>>, 0)

SpecGrow == InitGrow /\ [][NextGrow]_vars

\* C9: after a successful WriteAt(data, off) on a file of length L with
\* off > L the file has off + len(data) bytes: the first L are unchanged,
\* those from L to off are zero, and the rest are data.
C9_SparseWrite ==
    (/\ last.op = "WriteAt" /\ last.err = "ok"
     /\ last.pre \in {"overlay", "base"}
     /\ last.off > Len(last.was)) =>
        LET c == ContentOf(overlay, heap, last.p)
            L == Len(last.was)
        IN /\ Len(c) = last.off + Len(last.data)
           /\ SubSeq(c, 1, L) = last.was
           /\ \A i \in (L + 1)..last.off : c[i] = 0
           /\ SubSeq(c, last.off + 1, Len(c)) = last.data

-----------------------------------------------------------------------------
(* Sessions.  Every front-end gives the connection the same filesystem:    *)
(* `fs := GlobalSessionFS` (part_003:88 for SSH, part_002:942 for Telnet,  *)
(* part_004:145 for rlogin), the one SessionFS initFS makes                *)
(* (fs_data.go:163).  overlay and cwd are the fields of that object.       *)

Sessions == {"A", "B"}

\* the SessionFS a connection's Terminal and SFTP handler are built on
SessionFSOf(s) == "GlobalSessionFS"

\* the fields of a SessionFS object
FSObject(id) == IF id = "GlobalSessionFS" THEN [ov |-> overlay, cwd |-> cwd]
                ELSE [ov |-> <<>>, cwd |-> pRoot]

\* what GetEntry, ListDir and pwd return in session s
SessView(s) ==
    LET f == FSObject(SessionFSOf(s)) IN
    [get |-> [p \in Paths |->
                LET g == GetEntry(f.ov, p) IN
                IF g.ok THEN <<TRUE, g.e.IsDir, Bytes(heap, g.e.Content)>>
                ELSE <<FALSE, FALSE, <<>>>>],
     ls  |-> [d \in {pEtc, pTmp} |-> ListDir(f.ov, d)],
     cwd |-> f.cwd]

\* what a session sees of the base image alone
BaseView ==
    [get |-> [p \in Paths |->
                IF p \in DOMAIN BaseFS
                THEN <<TRUE, BaseFS[p].IsDir, Bytes(heap, BaseFS[p].Content)>>
                ELSE <<FALSE, FALSE, <<>>>>],
     ls  |-> [d \in {pEtc, pTmp} |-> ListDir(<<>>, d)],
     cwd |-> pRoot]

\* a login completes: handleSSHConn (part_003:83-98), handleTelnetConn
\* (part_002:942-947), handleRLoginConn (part_004:145-159)
Connect(s) ==
    /\ fuel > 0
    /\ s \notin active
    /\ active' = active \cup {s}
    /\ last' = [NoCall EXCEPT !.op = "connect", !.by = s]
    /\ fuel' = fuel - 1
    /\ UNCHANGED <<BaseFS, BaseFSDirCache, overlay, cwd, heap, tasks, term, pl, conn>>

\* the connection closes: Terminal.Run returns; nothing resets the SessionFS
Disconnect(s) ==
    /\ fuel > 0
    /\ s \in active
    /\ active' = active \ {s}
    /\ last' = [NoCall EXCEPT !.op = "disconnect", !.by = s]
    /\ fuel' = fuel - 1
    /\ UNCHANGED <<BaseFS, BaseFSDirCache, overlay, cwd, heap, tasks, term, pl, conn>>

\* `echo d > p` typed in session s (part_000:405-408)
SessRedirect(s, p, d) ==
    /\ fuel > 0
    /\ s \in active
    /\ LET b == NewBytes(heap, d)
           r == Write([ov |-> FSObject(SessionFSOf(s)).ov, hp |-> b.hp],
                      Clean(p), b.s, 420)
       IN Commit(r.st, [Call("Redirect", p, Root, d, 0, r.err, <<>>) EXCEPT !.by = s])

\* part_002:233-244: rm p
Rm(st, p) ==
    IF GetEntry(st.ov, Clean(p)).ok
    THEN [st |-> Remove(st, Clean(p)).st, err |-> "0"]
    ELSE [st |-> st, err |-> "1"]

\* `rm p` typed in session s
SessRm(s, p) ==
    /\ fuel > 0
    /\ s \in active
    /\ LET r == Rm([ov |-> FSObject(SessionFSOf(s)).ov, hp |-> heap], p)
       IN Commit(r.st, [Call("rm", p, Root, <<>>, 0, r.err, <<>>) EXCEPT !.by = s])

\* `mv a b` typed in session s
SessMv(s, a, b) ==
    /\ fuel > 0
    /\ s \in active
    /\ LET r == Mv([ov |-> FSObject(SessionFSOf(s)).ov, hp |-> heap], a, b)
       IN Commit(r.st, [Call("mv", a, b, <<>>, 0, r.err, <<>>) EXCEPT !.by = s])

\* part_002:140-151: cd p; the new cwd and the exit code
Cd(f, p) ==
    LET g == GetEntry(f.ov, Clean(p)) IN
    IF g.ok /\ g.e.IsDir THEN [cwd |-> Clean(p), err |-> "0"]
    ELSE [cwd |-> f.cwd, err |-> "1"]

\* `cd p` typed in session s
SessCd(s, p) ==
    /\ fuel > 0
    /\ s \in active
    /\ LET r == Cd(FSObject(SessionFSOf(s)), p) IN
       /\ cwd' = r.cwd
       /\ last' = [Call("cd", p, Root, <<>>, 0, r.err, <<>>) EXCEPT !.by = s]
    /\ fuel' = fuel - 1
    /\ UNCHANGED <<BaseFS, BaseFSDirCache, overlay, heap, active, tasks, term, pl, conn>>

InitSess ==
    /\ BaseFS = InitBaseFS
    /\ BaseFSDirCache = InitDirCache
    /\ overlay = <<>>
    /\ cwd = pRoot
    /\ heap = InitHeap
    /\ last = NoCall
    /\ fuel = MaxSessOps
    /\ active = {}
    /\ tasks = <<>>
    /\ term = Idle
    /\ pl = Idle
    /\ conn = Idle

NextSess ==
    \/ \E s \in Sessions : Connect(s)
    \/ \E s \in Sessions : Disconnect(s)
    \/ \E s \in Sessions, p \in {pHosts, pX} : SessRedirect(s, p, <<2>>)
    \/ \E s \in Sessions, p \in {pHosts, pX, pTmp} : SessRm(s, p)
    \/ \E s \in Sessions, a \in {pHosts, pX} : SessMv(s, a, pY)
    \/ \E s \in Sessions, p \in {pTmp, pEtc, pX} : SessCd(s, p)

SpecSess == InitSess /\ [][NextSess]_vars

\* C2, concurrent sessions: a step made in one session changes nothing of
\* what GetEntry, ListDir and cwd return in another logged-in session.
C2_OthersUnaffected ==
    \A s \in active :
        (s \in active' /\ last'.by # s) => SessView(s)' = SessView(s)

\* C2, later sessions: a session that starts when no other is logged in
\* sees the base image only.
C2_FreshSeesBase ==
    (last.op = "connect" /\ active = {last.by}) => SessView(last.by) = BaseView

\* C2: sessions have independent overlays and working directories.
C2_Isolation == [][C2_OthersUnaffected]_vars /\ [](C2_FreshSeesBase)

-----------------------------------------------------------------------------
(* Goroutines.  Each task is one call on the SessionFS, cut at its lock    *)
(* operations: a task's pc says which locks it holds and which memory it   *)
(* is about to touch.  overlay, heap and tasks are the shared memory.      *)

\* the FileEntry a path resolves to: the overlay's or the base image's
EntOv(p) == <<"ov", p>>
EntBase(p) == <<"base", p>>
NoEnt == <<"none">>

\* the mutexes: SessionFS.mu (fs.go:38) and FileEntry.mu (fs.go:32)
FsMu == <<"fs">>
EntMu(ent) == <<"entry", ent>>

NewTask(op, p, d, off) ==
    [op |-> op, p |-> p, data |-> d, off |-> off, pc |-> "start",
     ent |-> NoEnt, held |-> NilSlice, err |-> "ok", out |-> <<>>]

\* the overlay has an entry (not a tombstone) at key p
InOverlay(p) == p \in DOMAIN overlay /\ overlay[p] # Nil

\* the locks a task holds at its pc; x: held exclusively (Lock, not RLock)
Locks(t) ==
    LET k == tasks[t] IN
    CASE k.pc = "W_inFs"    -> {[m |-> FsMu, x |-> TRUE]}
      [] k.pc = "W_inEntry" -> {[m |-> FsMu, x |-> TRUE],
                                [m |-> EntMu(EntOv(Clean(k.p))), x |-> TRUE]}
      [] k.pc = "A_inFs"    -> {[m |-> FsMu, x |-> TRUE]}
      [] k.pc = "A_inEntry" -> {[m |-> EntMu(EntOv(k.p)), x |-> TRUE]}
      [] k.pc \in {"R_inFs", "L_inFs", "L_scan", "C_inFs"} -> {[m |-> FsMu, x |-> FALSE]}
      [] k.pc = "R_inEntry" -> {[m |-> EntMu(k.ent), x |-> FALSE]}
      [] OTHER -> {}

\* sync.RWMutex: Lock waits for every holder, RLock for an exclusive one
CanLock(t, m, x) ==
    \A u \in DOMAIN tasks \ {t} : \A l \in Locks(u) : l.m = m => ~(x \/ l.x)

\* the bytes of the array of slice s at indexes lo+1..hi
ByteLocs(s, lo, hi) == {<<"byte", s.arr, i>> : i \in (lo + 1)..hi}

\* srv_sftp.go:135-167: phase two of WriteAt panics on the slice c0 (make
\* with len > cap, a reslice beyond cap, a slice start beyond len)
WriteAtPanics(c0, n, off) ==
    LET end == off + n
        nc  == GrowCap(c0.cap, end)
        l1  == IF end > c0.len THEN end ELSE c0.len
    IN /\ ~WriteAtOverQuota(end)
       /\ \/ end > c0.cap /\ c0.len > nc
          \/ end > c0.len /\ end > nc
          \/ off > l1
          \/ off < 0

\* the memory a task touches in the step it is about to make; w: it writes
Acc(t) ==
    LET k == tasks[t] IN
    CASE k.pc \in {"W_inFs"} ->
            \* fs.go:143 and 163: fs.overlay[p] read, then assigned
            {[loc |-> <<"map">>, w |-> TRUE]}
      [] k.pc = "W_inEntry" ->
            \* fs.go:145: existing.Content = data
            {[loc |-> <<"hdr", EntOv(Clean(k.p))>>, w |-> TRUE]}
      [] k.pc = "A_inFs" ->
            \* srv_sftp.go:98, 131: the map; 105, 119: BaseFS content copied
            {[loc |-> <<"map">>, w |-> TRUE]}
            \cup (IF ~InOverlay(k.p) /\ k.p \in DOMAIN BaseFS
                  THEN {[loc |-> b, w |-> FALSE] :
                          b \in ByteLocs(BaseFS[k.p].Content, 0,
                                         BaseFS[k.p].Content.len)}
                  ELSE {})
      [] k.pc = "A_inEntry" ->
            LET c0  == overlay[k.p].Content
                end == k.off + Len(k.data)
            IN IF WriteAtOverQuota(end) THEN {}
               ELSE {[loc |-> <<"hdr", EntOv(k.p)>>, w |-> TRUE]}
                    \cup (IF end > c0.cap
                          \* srv_sftp.go:156: copy(newSlice, entry.Content)
                          THEN {[loc |-> b, w |-> FALSE] :
                                  b \in ByteLocs(c0, 0, c0.len)}
                          \* srv_sftp.go:167: copy(entry.Content[off:], p)
                          ELSE {[loc |-> b, w |-> TRUE] :
                                  b \in ByteLocs(c0, k.off, end)})
      [] k.pc \in {"R_inFs", "L_inFs", "L_scan", "C_inFs"} ->
            \* fs.go:72 and 109: the map read
            {[loc |-> <<"map">>, w |-> FALSE]}
      [] k.pc = "C_found" ->
            \* part_002:174: out.Write(e.Content)
            LET c == (IF k.ent[1] = "ov" THEN overlay[k.ent[2]]
                      ELSE BaseFS[k.ent[2]]).Content
            IN {[loc |-> <<"hdr", k.ent>>, w |-> FALSE]}
               \cup {[loc |-> b, w |-> FALSE] : b \in ByteLocs(c, 0, c.len)}
      [] k.pc = "R_inEntry" ->
            \* srv_sftp.go:29: content := e.Content
            {[loc |-> <<"hdr", k.ent>>, w |-> FALSE]}
      [] k.pc = "R_reading" ->
            \* the bytes.Reader of srv_sftp.go:33 read to EOF
            {[loc |-> b, w |-> FALSE] : b \in ByteLocs(k.held, 0, k.held.len)}
      [] OTHER -> {}

\* t and u hold one mutex, one of them exclusively
Protected(t, u) ==
    \E l \in Locks(t), m \in Locks(u) : l.m = m.m /\ (l.x \/ m.x)

\* two tasks are about to touch the same memory, one writing, under no
\* common lock
Race(t, u) ==
    /\ t # u
    /\ ~Protected(t, u)
    /\ \E a \in Acc(t), b \in Acc(u) : a.loc = b.loc /\ (a.w \/ b.w)

\* the state after a step of task t that leaves it as rec
Step(t, st, rec) ==
    LET held == [i \in DOMAIN tasks |-> IF i = t THEN rec.held ELSE tasks[i].held]
        n    == Normalise(st, held)
    IN /\ overlay' = n.ov
       /\ heap' = n.hp
       /\ tasks' = [i \in DOMAIN tasks |->
                      [(IF i = t THEN rec ELSE tasks[i]) EXCEPT !.held = n.held[i]]]
       /\ UNCHANGED <<BaseFS, BaseFSDirCache, cwd, last, fuel, active, term, pl, conn>>

\* `go` of one call; the goroutines are started before any of them runs,
\* on pairwise distinct paths (in the order of the paths)
Go(k) ==
    /\ Len(tasks) < MaxTasks
    /\ \A i \in DOMAIN tasks : tasks[i].pc = "start"
    /\ \A i \in DOMAIN tasks : PathNum(tasks[i].p) < PathNum(k.p)
    /\ tasks' = Append(tasks, k)
    /\ UNCHANGED <<BaseFS, BaseFSDirCache, overlay, cwd, heap, last, fuel, active, term, pl, conn>>

\* the sequential call before the goroutines start: cp src dst
PreCp(a, b) ==
    /\ tasks = <<>>
    /\ DoCp(a, b)

\* fs.go:134: fs.mu.Lock()
WLock(t) ==
    /\ t \in DOMAIN tasks
    /\ tasks[t].op = "Write" /\ tasks[t].pc = "start"
    /\ CanLock(t, FsMu, TRUE)
    /\ Step(t, St, [tasks[t] EXCEPT !.pc = "W_inFs"])

\* fs.go:137-176 when the overlay has no entry at p (or the quota test
\* fails): the whole call; fs.go:143-144 otherwise: existing.mu.Lock()
WEnter(t) ==
    /\ t \in DOMAIN tasks
    /\ tasks[t].op = "Write" /\ tasks[t].pc = "W_inFs"
    /\ LET k == tasks[t]
           q == Clean(k.p)
       IN IF ~WriteOverQuota(Len(k.data)) /\ InOverlay(q)
          THEN /\ CanLock(t, EntMu(EntOv(q)), TRUE)
               /\ Step(t, St, [k EXCEPT !.pc = "W_inEntry"])
          ELSE LET b == NewBytes(heap, k.data)
                   r == Write([ov |-> overlay, hp |-> b.hp], k.p, b.s, 0)
               IN Step(t, r.st, [k EXCEPT !.pc = "done", !.err = r.err])

\* fs.go:145-150, and the deferred Unlock
WSet(t) ==
    /\ t \in DOMAIN tasks
    /\ tasks[t].op = "Write" /\ tasks[t].pc = "W_inEntry"
    /\ LET k == tasks[t]
           b == NewBytes(heap, k.data)
           r == Write([ov |-> overlay, hp |-> b.hp], k.p, b.s, 0)
       IN Step(t, r.st, [k EXCEPT !.pc = "done", !.err = r.err])

\* srv_sftp.go:97: w.fs.mu.Lock()
ALock(t) ==
    /\ t \in DOMAIN tasks
    /\ tasks[t].op = "WriteAt" /\ tasks[t].pc = "start"
    /\ CanLock(t, FsMu, TRUE)
    /\ Step(t, St, [tasks[t] EXCEPT !.pc = "A_inFs"])

\* srv_sftp.go:98-132: phase one and w.fs.mu.Unlock()
AFind(t) ==
    /\ t \in DOMAIN tasks
    /\ tasks[t].op = "WriteAt" /\ tasks[t].pc = "A_inFs"
    /\ LET k == tasks[t] IN
       Step(t, WriteAtFind(St, k.p, Len(k.data), k.off),
            [k EXCEPT !.pc = "A_wait", !.ent = EntOv(k.p)])

\* srv_sftp.go:135: entry.mu.Lock()
AEntryLock(t) ==
    /\ t \in DOMAIN tasks
    /\ tasks[t].op = "WriteAt" /\ tasks[t].pc = "A_wait"
    /\ CanLock(t, EntMu(tasks[t].ent), TRUE)
    /\ Step(t, St, [tasks[t] EXCEPT !.pc = "A_inEntry"])

\* srv_sftp.go:138-170: phase two and the deferred Unlock
ACopy(t) ==
    /\ t \in DOMAIN tasks
    /\ tasks[t].op = "WriteAt" /\ tasks[t].pc = "A_inEntry"
    /\ LET k == tasks[t] IN
       IF WriteAtPanics(overlay[k.p].Content, Len(k.data), k.off)
       THEN Step(t, St, [k EXCEPT !.pc = "done", !.err = "panic"])
       ELSE LET r == WriteAtCopy(St, k.p, k.data, k.off) IN
            Step(t, r.st, [k EXCEPT !.pc = "done", !.err = r.err])

\* fs.go:71: fs.mu.RLock() of the GetEntry of Fileread (srv_sftp.go:22)
RGet(t) ==
    /\ t \in DOMAIN tasks
    /\ tasks[t].op = "Fileread" /\ tasks[t].pc = "start"
    /\ CanLock(t, FsMu, FALSE)
    /\ Step(t, St, [tasks[t] EXCEPT !.pc = "R_inFs"])

\* fs.go:72-87: the lookup, RUnlock, and the BaseFS lookup
RLook(t) ==
    /\ t \in DOMAIN tasks
    /\ tasks[t].op = "Fileread" /\ tasks[t].pc = "R_inFs"
    /\ LET k == tasks[t]
           g == GetEntry(overlay, k.p)
       IN IF ~g.ok
          THEN Step(t, St, [k EXCEPT !.pc = "done", !.err = "ErrNotExist"])
          ELSE Step(t, St, [k EXCEPT !.pc = "R_found",
                              !.ent = IF g.layer = "overlay"
                                      THEN EntOv(Clean(k.p))
                                      ELSE EntBase(Clean(k.p))])

\* srv_sftp.go:28: e.mu.RLock()
REntryRLock(t) ==
    /\ t \in DOMAIN tasks
    /\ tasks[t].op = "Fileread" /\ tasks[t].pc = "R_found"
    /\ CanLock(t, EntMu(tasks[t].ent), FALSE)
    /\ Step(t, St, [tasks[t] EXCEPT !.pc = "R_inEntry"])

\* srv_sftp.go:29-33: content := e.Content, RUnlock, bytes.NewReader
RSnap(t) ==
    /\ t \in DOMAIN tasks
    /\ tasks[t].op = "Fileread" /\ tasks[t].pc = "R_inEntry"
    /\ LET k == tasks[t]
           e == IF k.ent[1] = "ov" THEN overlay[k.ent[2]] ELSE BaseFS[k.ent[2]]
       IN Step(t, St, [k EXCEPT !.pc = "R_reading", !.held = e.Content])

\* the reader is read to EOF, under no lock
RRead(t) ==
    /\ t \in DOMAIN tasks
    /\ tasks[t].op = "Fileread" /\ tasks[t].pc = "R_reading"
    /\ LET k == tasks[t] IN
       Step(t, St, [k EXCEPT !.pc = "done", !.out = Bytes(heap, k.held),
                             !.held = NilSlice])

\* fs.go:71: fs.mu.RLock() of the GetEntry of ListDir (fs.go:93)
LGet(t) ==
    /\ t \in DOMAIN tasks
    /\ tasks[t].op = "ListDir" /\ tasks[t].pc = "start"
    /\ CanLock(t, FsMu, FALSE)
    /\ Step(t, St, [tasks[t] EXCEPT !.pc = "L_inFs"])

\* fs.go:72-96: the lookup of the directory, RUnlock, the IsDir test
LLook(t) ==
    /\ t \in DOMAIN tasks
    /\ tasks[t].op = "ListDir" /\ tasks[t].pc = "L_inFs"
    /\ LET k == tasks[t]
           g == GetEntry(overlay, k.p)
       IN IF g.ok /\ g.e.IsDir
          THEN Step(t, St, [k EXCEPT !.pc = "L_dir"])
          ELSE Step(t, St, [k EXCEPT !.pc = "done", !.err = "ErrNotExist"])

\* fs.go:108: fs.mu.RLock()
LScanLock(t) ==
    /\ t \in DOMAIN tasks
    /\ tasks[t].op = "ListDir" /\ tasks[t].pc = "L_dir"
    /\ CanLock(t, FsMu, FALSE)
    /\ Step(t, St, [tasks[t] EXCEPT !.pc = "L_scan"])

\* fs.go:109-130: the scan of the overlay, RUnlock, the sort
LScan(t) ==
    /\ t \in DOMAIN tasks
    /\ tasks[t].op = "ListDir" /\ tasks[t].pc = "L_scan"
    /\ LET k == tasks[t] IN
       Step(t, St, [k EXCEPT !.pc = "done",
                             !.out = SortNames(DOMAIN ListItems(overlay, Clean(k.p)))])

\* the task can make its next step (it is not waiting for a lock)
CanStep(t) ==
    LET k == tasks[t] IN
    CASE k.pc = "start" -> CanLock(t, FsMu, k.op \in {"Write", "WriteAt"})
      [] k.pc = "W_inFs" ->
            (~WriteOverQuota(Len(k.data)) /\ InOverlay(Clean(k.p)))
                => CanLock(t, EntMu(EntOv(Clean(k.p))), TRUE)
      [] k.pc = "A_wait"  -> CanLock(t, EntMu(k.ent), TRUE)
      [] k.pc = "R_found" -> CanLock(t, EntMu(k.ent), FALSE)
      [] k.pc = "L_dir"   -> CanLock(t, FsMu, FALSE)
      [] k.pc = "done"    -> FALSE
      [] OTHER -> TRUE

\* the calls the goroutines make
TaskMenu ==
    {NewTask("Write", p, <<2>>, 0) : p \in {pX, pY}}
    \cup {NewTask("WriteAt", p, <<3>>, off) : p \in {pHosts, pX, pY}, off \in {0, 3}}
    \cup {NewTask("Fileread", p, <<>>, 0) : p \in {pHosts, pX, pY}}
    \cup {NewTask("ListDir", p, <<>>, 0) : p \in {pEtc, pTmp}}

InitConc ==
    /\ BaseFS = InitBaseFS
    /\ BaseFSDirCache = InitDirCache
    /\ overlay = <<>>
    /\ cwd = pRoot
    /\ heap = InitHeap
    /\ last = NoCall
    /\ fuel = MaxPrelude
    /\ active = {}
    /\ tasks = <<>>
    /\ term = Idle
    /\ pl = Idle
    /\ conn = Idle

NextConc ==
    \/ \E b \in {pX, pY} : PreCp(pHosts, b)
    \/ \E k \in TaskMenu : Go(k)
    \/ \E t \in 1..MaxTasks : WLock(t)
    \/ \E t \in 1..MaxTasks : WEnter(t)
    \/ \E t \in 1..MaxTasks : WSet(t)
    \/ \E t \in 1..MaxTasks : ALock(t)
    \/ \E t \in 1..MaxTasks : AFind(t)
    \/ \E t \in 1..MaxTasks : AEntryLock(t)
    \/ \E t \in 1..MaxTasks : ACopy(t)
    \/ \E t \in 1..MaxTasks : RGet(t)
    \/ \E t \in 1..MaxTasks : RLook(t)
    \/ \E t \in 1..MaxTasks : REntryRLock(t)
    \/ \E t \in 1..MaxTasks : RSnap(t)
    \/ \E t \in 1..MaxTasks : RRead(t)
    \/ \E t \in 1..MaxTasks : LGet(t)
    \/ \E t \in 1..MaxTasks : LLook(t)
    \/ \E t \in 1..MaxTasks : LScanLock(t)
    \/ \E t \in 1..MaxTasks : LScan(t)

SpecConc == InitConc /\ [][NextConc]_vars

\* C4: goroutines calling Write, WriteAt, Fileread and ListDir on pairwise
\* distinct paths of one SessionFS never touch the overlay map or the bytes
\* or header of an entry's content at the same time without a common lock,
\* never panic, and never all wait: some unfinished call can always go on.
C4_DistinctPathsSafe ==
    /\ \A t, u \in DOMAIN tasks : ~Race(t, u)
    /\ \A t \in DOMAIN tasks : tasks[t].err # "panic"
    /\ (\E t \in DOMAIN tasks : tasks[t].pc # "done")
          => (\E t \in DOMAIN tasks : CanStep(t))

-----------------------------------------------------------------------------
(* Pipelines (part_000:411-475).  Each stage is a goroutine running one    *)
(* command between two io.Pipe ends; pl holds the stages, the pipes and    *)
(* what the last stage wrote.  Bytes are small numbers; NL is '\n'.        *)

NL == 10

\* bytes one Read call takes at most (the reader's buffer, scaled down)
ReadBuf == 2

\* number of stages of a pipeline
MaxStages == 3

\* the commands by what they do with their streams:
\*   "echo"  writes one line and never reads (part_002:190-192)
\*   "cat3"  cat of a file of three lines: one Write (part_002:174)
\*   "cat0"  cat of an empty file: one Write of no bytes (part_002:174)
\*   "catnl" cat of a file without final newline: two Writes (part_002:174-177)
\*   "copy"  cat without arguments: io.Copy(out, in) (part_002:186)
\*   "head1" head -n 1 on stdin (part_002:413-418)
\*   "wc"    wc, tail on stdin: read to EOF, then write (part_002:419-431, 446-458)
\*   "grep"  grep pat on stdin: write the lines read, to EOF (part_002:293-296)
\*   "none"  a command that touches neither stream (mkdir, sleep, ...)
Kinds == {"echo", "cat3", "cat0", "catnl", "copy", "head1", "wc", "grep", "none"}

\* the Write calls a command makes before it reads anything
FirstWrites(kind) ==
    CASE kind = "echo"  -> <<<<1, NL>>>>
      [] kind = "cat3"  -> <<<<1, NL, 2, NL, 3, NL>>>>
      [] kind = "cat0"  -> <<<<>>>>
      [] kind = "catnl" -> <<<<1, NL, 2>>, <<NL>>>>
      [] OTHER -> <<>>

\* a stage: the Write calls it still has to make, the bytes it read and has
\* not used, the lines head may still print, whether its Read returned EOF,
\* whether a Write returned an error
NewStage(kind) ==
    [kind |-> kind, pc |-> "run", todo |-> FirstWrites(kind), got |-> <<>>,
     lines |-> 1, eof |-> FALSE, werr |-> FALSE]

\* io.Pipe() (part_000:443): the Write in progress and its bytes not yet
\* read, the closed ends; offered and delivered record every byte passed to
\* Write and every byte Read returned
NewPipe ==
    [writing |-> FALSE, pending |-> <<>>, wclosed |-> FALSE, rclosed |-> FALSE,
     offered |-> <<>>, delivered |-> <<>>]

\* the index of the first NL of b, or 0
NLAt(b) == IF \E i \in 1..Len(b) : b[i] = NL
           THEN CHOOSE i \in 1..Len(b) : b[i] = NL /\ \A j \in 1..(i - 1) : b[j] # NL
           ELSE 0

\* what the command of stage s does next: "write", "read" or "exit"
NextOp(s) ==
    CASE s.kind \in {"echo", "cat3", "cat0", "catnl", "none"} ->
            IF s.todo # <<>> THEN "write" ELSE "exit"
      [] s.kind = "copy" ->
            \* io.Copy: stop on a Write error, on EOF
            IF s.werr THEN "exit"
            ELSE IF s.todo # <<>> THEN "write"
            ELSE IF s.eof THEN "exit" ELSE "read"
      [] s.kind = "grep" ->
            \* part_002:272-289: Fprintf's error is not looked at
            IF s.todo # <<>> THEN "write"
            ELSE IF s.eof THEN "exit" ELSE "read"
      [] s.kind = "head1" ->
            \* part_002:415-417: for i < limit && scanner.Scan()
            IF s.todo # <<>> THEN "write"
            ELSE IF s.lines = 0 THEN "exit"
            ELSE IF s.eof THEN "exit" ELSE "read"
      [] s.kind = "wc" ->
            IF s.todo # <<>> THEN "write"
            ELSE IF s.lines = 0 THEN "exit" ELSE "read"

\* the stage after its Read returned the bytes b (eof: it returned EOF)
AfterRead(s, b, eof) ==
    CASE s.kind \in {"copy", "grep"} ->
            [s EXCEPT !.eof = eof, !.todo = IF b = <<>> THEN <<>> ELSE <<b>>]
      [] s.kind = "head1" ->
            \* bufio.Scanner: a line is complete at NL, or at EOF if not empty
            LET all == s.got \o b
                k   == NLAt(all)
            IN IF k > 0
               THEN [s EXCEPT !.got = <<>>, !.lines = 0,
                              !.todo = <<SubSeq(all, 1, k)>>]
               ELSE IF eof /\ all # <<>>
               THEN [s EXCEPT !.got = <<>>, !.lines = 0, !.eof = TRUE,
                              !.todo = <<Append(all, NL)>>]
               ELSE [s EXCEPT !.got = all, !.eof = eof]
      [] s.kind = "wc" ->
            \* the count is printed once the scanner has reached EOF
            IF eof THEN [s EXCEPT !.eof = TRUE, !.lines = 0, !.todo = <<<<7, NL>>>>]
            ELSE s
      [] OTHER -> s

\* a wrong exit: the stage does not close the read end of its input
ExitPipes_keepsStdin(ps, i) ==
    [j \in DOMAIN ps |-> IF j = i THEN [ps[j] EXCEPT !.wclosed = TRUE] ELSE ps[j]]

\* a wrong exit: the stage does not close the write end of its output
ExitPipes_keepsStdout(ps, i) ==
    [j \in DOMAIN ps |-> IF j = i - 1 THEN [ps[j] EXCEPT !.rclosed = TRUE] ELSE ps[j]]

\* part_000:456-467: the deferred Close calls of stage i, on every return
\* path: the read end of pipe i-1 (its stdin) and the write end of pipe i
ExitPipes(ps, i) ==
    [j \in DOMAIN ps |->
        IF j = i - 1 THEN [ps[j] EXCEPT !.rclosed = TRUE]
        ELSE IF j = i THEN [ps[j] EXCEPT !.wclosed = TRUE]
        ELSE ps[j]]

\* io.PipeReader.Read returns EOF: no Write in progress and the write end closed
PipeAtEOF(p) == ~p.writing /\ p.wclosed

\* part_000:426-474: the pipeline of the commands ks starts: pipe i joins
\* stage i to stage i+1, the first stage reads an empty bytes.Buffer
Launch(ks) ==
    /\ pl = Idle
    /\ pl' = [on |-> TRUE,
              stages |-> [i \in 1..Len(ks) |-> NewStage(ks[i])],
              pipes |-> [i \in 1..(Len(ks) - 1) |-> NewPipe],
              out |-> <<>>, returned |-> FALSE]
    /\ UNCHANGED <<BaseFS, BaseFSDirCache, overlay, cwd, heap, last, fuel, active, tasks, term, conn>>

\* the command of stage i calls out.Write(c): on the last stage the bytes
\* go to finalOut; on a pipe whose read end is closed Write fails at once,
\* otherwise the call waits for the reader
StageWrite(i) ==
    /\ pl.on /\ i \in DOMAIN pl.stages
    /\ pl.stages[i].pc = "run" /\ NextOp(pl.stages[i]) = "write"
    /\ LET s == pl.stages[i]
           c == Head(s.todo)
           r == [s EXCEPT !.todo = Tail(@)]
       IN IF i = Len(pl.stages)
          THEN pl' = [pl EXCEPT !.stages[i] = r, !.out = @ \o c]
          ELSE IF pl.pipes[i].rclosed
          THEN pl' = [pl EXCEPT !.stages[i] = [r EXCEPT !.werr = TRUE],
                                !.pipes[i].offered = @ \o c]
          ELSE pl' = [pl EXCEPT !.stages[i] = [r EXCEPT !.pc = "writing"],
                                !.pipes[i] = [@ EXCEPT !.writing = TRUE,
                                                       !.pending = c,
                                                       !.offered = @ \o c]]
    /\ UNCHANGED <<BaseFS, BaseFSDirCache, overlay, cwd, heap, last, fuel, active, tasks, term, conn>>

\* the command of stage i calls in.Read: it takes up to ReadBuf bytes of
\* the Write in progress (which returns once all its bytes are taken), or
\* gets EOF; it waits while there is neither
StageRead(i) ==
    /\ pl.on /\ i \in DOMAIN pl.stages
    /\ pl.stages[i].pc = "run" /\ NextOp(pl.stages[i]) = "read"
    /\ LET s == pl.stages[i] IN
       IF i = 1
       THEN pl' = [pl EXCEPT !.stages[i] = AfterRead(s, <<>>, TRUE)]
       ELSE LET p == pl.pipes[i - 1] IN
            /\ p.writing \/ PipeAtEOF(p)
            /\ IF p.writing
               THEN LET n    == IF Len(p.pending) < ReadBuf THEN Len(p.pending) ELSE ReadBuf
                        b    == SubSeq(p.pending, 1, n)
                        rest == SubSeq(p.pending, n + 1, Len(p.pending))
                    IN pl' = [pl EXCEPT
                         !.stages[i] = AfterRead(s, b, FALSE),
                         !.stages[i - 1].pc = IF rest = <<>> THEN "run" ELSE @,
                         !.pipes[i - 1] = [@ EXCEPT !.pending = rest,
                                                    !.writing = rest # <<>>,
                                                    !.delivered = @ \o b]]
               ELSE pl' = [pl EXCEPT !.stages[i] = AfterRead(s, <<>>, TRUE)]
    /\ UNCHANGED <<BaseFS, BaseFSDirCache, overlay, cwd, heap, last, fuel, active, tasks, term, conn>>

\* the Write stage i waits in returns io.ErrClosedPipe: the read end of its
\* pipe was closed
WriteFail(i) ==
    /\ pl.on /\ i \in DOMAIN pl.stages
    /\ pl.stages[i].pc = "writing"
    /\ pl.pipes[i].rclosed
    /\ pl' = [pl EXCEPT !.stages[i] = [@ EXCEPT !.pc = "run", !.werr = TRUE],
                        !.pipes[i] = [@ EXCEPT !.writing = FALSE, !.pending = <<>>]]
    /\ UNCHANGED <<BaseFS, BaseFSDirCache, overlay, cwd, heap, last, fuel, active, tasks, term, conn>>

\* part_000:456-470: runCommand returned in stage i; the deferred calls run
StageExit(i) ==
    /\ pl.on /\ i \in DOMAIN pl.stages
    /\ pl.stages[i].pc = "run" /\ NextOp(pl.stages[i]) = "exit"
    /\ pl' = [pl EXCEPT !.stages[i].pc = "done", !.pipes = ExitPipes(@, i)]
    /\ UNCHANGED <<BaseFS, BaseFSDirCache, overlay, cwd, heap, last, fuel, active, tasks, term, conn>>

\* part_000:474: wg.Wait() returns
Wait ==
    /\ pl.on /\ ~pl.returned
    /\ \A i \in DOMAIN pl.stages : pl.stages[i].pc = "done"
    /\ pl' = [pl EXCEPT !.returned = TRUE]
    /\ UNCHANGED <<BaseFS, BaseFSDirCache, overlay, cwd, heap, last, fuel, active, tasks, term, conn>>

\* the pipelines of two to MaxStages commands
Pipelines == UNION {[1..n -> Kinds] : n \in 2..MaxStages}

InitPipe ==
    /\ BaseFS = InitBaseFS
    /\ BaseFSDirCache = InitDirCache
    /\ overlay = <<>>
    /\ cwd = pRoot
    /\ heap = InitHeap
    /\ last = NoCall
    /\ fuel = 0
    /\ active = {}
    /\ tasks = <<>>
    /\ term = Idle
    /\ pl = Idle
    /\ conn = Idle

NextPipe ==
    \/ \E ks \in Pipelines : Launch(ks)
    \/ \E i \in 1..MaxStages : StageWrite(i)
    \/ \E i \in 1..MaxStages : StageRead(i)
    \/ \E i \in 1..MaxStages : WriteFail(i)
    \/ \E i \in 1..MaxStages : StageExit(i)
    \/ Wait

\* the Go scheduler runs every goroutine that can run
SpecPipe == InitPipe /\ [][NextPipe]_vars /\ WF_vars(NextPipe)

IsPrefix(a, b) == Len(a) <= Len(b) /\ SubSeq(b, 1, Len(a)) = a

C12_PipeOrder ==
    pl.on =>
      \A i \in DOMAIN pl.pipes :
        /\ IsPrefix(pl.pipes[i].delivered, pl.pipes[i].offered)
        /\ pl.stages[i + 1].eof =>
              /\ pl.pipes[i].wclosed
              /\ pl.stages[i].pc = "done"
              /\ pl.pipes[i].delivered = pl.pipes[i].offered
        /\ pl.stages[i].pc = "done" => pl.pipes[i].wclosed

\* C12 happens: a downstream stage has read several bytes in more than one
\* Read call and then EOF
C12_Witness ==
    /\ pl.on
    /\ \E i \in DOMAIN pl.pipes :
          /\ pl.stages[i + 1].eof
          /\ Len(pl.pipes[i].delivered) > ReadBuf

-----------------------------------------------------------------------------
(* Telnet and rlogin connections (part_002:671-966, part_004) and the      *)
(* Terminal on top of them (part_000:39-297).  conn is the connection, its *)
(* stream object and the handler goroutine; term is the Terminal with its  *)
(* input goroutine, its main loop and the foreground program.              *)

\* part_002:644-652, 658
cmdSE == 240
cmdSB == 250
cmdWILL == 251
cmdWONT == 252
cmdDO == 253
cmdDONT == 254
cmdIAC == 255
optNAWS == 31

CR == 13
CtrlC == 3
CtrlD == 4

\* utf8.RuneError, what bufio.Reader.ReadRune returns for a byte that is
\* no UTF-8 (part_000:142)
RuneError == 65533

\* capacity of the key channel (128 in the program, part_000:77, scaled down)
KeyChanCap == 2

\* number of Write calls the client makes on the connection
MaxSends == 3

\* command lines, as the bytes typed
LineLs == <<108, 115>>
LineWget == <<119, 103, 101, 116, 32, 97>>
LineGame == <<107, 101, 114, 110, 101, 108, 112, 97, 110, 105, 99>>
LineExit == <<101, 120, 105, 116>>
KeyQ == 113

\* RFC 1073: the NAWS subnegotiation a client sends for a window of w
\* columns and h rows; a byte 255 of the data is sent doubled
Esc255(b) == IF b = cmdIAC THEN <<cmdIAC, cmdIAC>> ELSE <<b>>
NawsBytes(w, h) ==
    <<cmdIAC, cmdSB, optNAWS>> \o Esc255(w \div 256) \o Esc255(w % 256)
        \o Esc255(h \div 256) \o Esc255(h % 256) \o <<cmdIAC, cmdSE>>

\* rlogin: the window-size message for h rows and w columns
WinBytes(w, h) ==
    <<255, 255, 115, 115, h \div 256, h % 256, w \div 256, w % 256, 0, 0, 0, 0>>

\* what the client may write on a Telnet connection in one call
TelnetChunks ==
    { <<114, CR, CR>>,                 \* user name r, empty password
      Append(LineLs, CR), Append(LineWget, CR), Append(LineGame, CR),
      Append(LineExit, CR), <<KeyQ>>, <<CtrlD>>,
      <<cmdIAC>>, <<cmdIAC, cmdSB>>, <<cmdIAC, cmdIAC>>,
      <<cmdIAC, cmdWILL, optNAWS>>,
      NawsBytes(120, 24), NawsBytes(255, 24) }

\* what the client may write on an rlogin connection in one call
RLoginChunks ==
    { <<0, 114, 0, 114, 0, 120, 0, CR>>,   \* the four strings, empty password
      Append(LineLs, CR), Append(LineGame, CR), Append(LineExit, CR),
      <<KeyQ>>, <<CtrlD>>,
      <<255>>, <<255, 255>>, WinBytes(120, 24) }

\* handleTelnetConn (part_002:908-925) and handleRLoginConn
\* (part_004:103-108) before the first read
NewConn(proto) ==
    [on |-> TRUE, proto |-> proto, inbuf |-> <<>>, closed |-> FALSE,
     left |-> MaxSends,
     phase |-> IF proto = "telnet" THEN "user" ELSE "hs",
     rd |-> "top", cmd |-> 0, subBuf |-> <<>>, sbRef |-> <<>>,
     skipLF |-> FALSE, negotiated |-> {},
     state |-> 0, winSizeBuf |-> <<>>,
     initialWidth |-> 80, initialHeight |-> 24,
     line |-> <<>>, nuls |-> 0,
     naws |-> <<80, 24>>, werr |-> FALSE]

\* NewTerminal (part_000:67-79), Run up to `go t.inputLoop()` (part_000:166-174)
NewTerminal(w, h) ==
    [on |-> TRUE, Width |-> w, Height |-> h, Running |-> TRUE,
     buffer |-> <<>>, keyChan |-> <<>>, keyClosed |-> FALSE,
     RawModeWriter |-> FALSE,
     il |-> "loop", key |-> 0, main |-> "recv", cmdline |-> <<>>,
     rawpend |-> <<>>,
     game |-> [running |-> FALSE, State |-> 0, MenuIdx |-> 0, input |-> <<>>,
               Quit |-> FALSE, frame |-> 0],
     forEditor |-> <<>>, received |-> <<>>, keyRaw |-> FALSE]

\* Terminal.Resize (part_000:81-86)
Resize(t, w, h) == [t EXCEPT !.Width = w, !.Height = h]

\* part_002:749-762: handleSubnegotiation for NAWS; the stream and the
\* terminal after it
HandleNaws(c, t, data) ==
    IF Len(data) >= 5 /\ data[1] = optNAWS
    THEN LET w == data[2] * 256 + data[3]
             h == data[4] * 256 + data[5]
         IN IF t.on THEN [c |-> c, t |-> Resize(t, w, h)]
            ELSE [c |-> [c EXCEPT !.initialWidth = w, !.initialHeight = h], t |-> t]
    ELSE [c |-> c, t |-> t]

\* the window size a finished subnegotiation announces, by RFC 1073 (its
\* data with doubled 255 undone), or the size announced before
AnnouncedSize(c, ref) ==
    IF Len(ref) >= 5 /\ ref[1] = optNAWS
    THEN <<ref[2] * 256 + ref[3], ref[4] * 256 + ref[5]>>
    ELSE c.naws

\* part_002:700-739: handleOption writes an answer on the connection; a
\* failed Write makes it return the error before the option is recorded
OptionWrites(c, cmd, opt) ==
    /\ opt \notin c.negotiated
    /\ cmd \in {cmdWILL, cmdDO}

\* part_002:700-739: the options recorded as negotiated after handleOption
OptionNegotiated(c, cmd, opt) ==
    IF opt \in c.negotiated THEN c.negotiated
    ELSE IF cmd = cmdWILL /\ opt \in {24, optNAWS, 39} THEN c.negotiated \cup {opt}
    ELSE IF cmd = cmdDO /\ opt \in {1, 3} THEN c.negotiated \cup {opt}
    ELSE c.negotiated

\* part_002:827-895: TelnetStream.Read takes the byte b with ReadByte.
\* out: the byte Read returns, if it returns; wfail: the Write of
\* handleOption failed, so Read returns the error
TelnetByte(c, t, b, wfail) ==
    CASE c.rd = "top" ->
            IF c.skipLF /\ b = 10
            THEN [c |-> [c EXCEPT !.skipLF = FALSE], t |-> t, out |-> <<>>, err |-> FALSE]
            ELSE IF b # cmdIAC
            THEN [c |-> [c EXCEPT !.skipLF = (b = CR)], t |-> t,
                  out |-> <<IF b = CR THEN 10 ELSE b>>, err |-> FALSE]
            ELSE [c |-> [c EXCEPT !.skipLF = FALSE, !.rd = "cmd"], t |-> t,
                  out |-> <<>>, err |-> FALSE]
      [] c.rd = "cmd" ->
            IF b = cmdIAC
            THEN [c |-> [c EXCEPT !.rd = "top"], t |-> t, out |-> <<cmdIAC>>, err |-> FALSE]
            ELSE IF b \in {cmdWILL, cmdWONT, cmdDO, cmdDONT}
            THEN [c |-> [c EXCEPT !.rd = "opt", !.cmd = b], t |-> t, out |-> <<>>, err |-> FALSE]
            ELSE IF b = cmdSB
            THEN [c |-> [c EXCEPT !.rd = "sb", !.subBuf = <<>>, !.sbRef = <<>>],
                  t |-> t, out |-> <<>>, err |-> FALSE]
            ELSE [c |-> [c EXCEPT !.rd = "top"], t |-> t, out |-> <<>>, err |-> FALSE]
      [] c.rd = "opt" ->
            IF OptionWrites(c, c.cmd, b) /\ wfail
            THEN [c |-> [c EXCEPT !.rd = "top"], t |-> t, out |-> <<>>, err |-> TRUE]
            ELSE [c |-> [c EXCEPT !.rd = "top",
                                  !.negotiated = OptionNegotiated(c, c.cmd, b)],
                  t |-> t, out |-> <<>>, err |-> FALSE]
      [] c.rd = "sb" ->
            IF b = cmdIAC
            THEN [c |-> [c EXCEPT !.rd = "sbiac"], t |-> t, out |-> <<>>, err |-> FALSE]
            ELSE [c |-> [c EXCEPT !.subBuf = Append(@, b), !.sbRef = Append(@, b)],
                  t |-> t, out |-> <<>>, err |-> FALSE]
      [] c.rd = "sbiac" ->
            IF b = cmdSE
            THEN LET r == HandleNaws(c, t, c.subBuf) IN
                 [c |-> [r.c EXCEPT !.rd = "top", !.naws = AnnouncedSize(c, c.sbRef)],
                  t |-> r.t, out |-> <<>>, err |-> FALSE]
            ELSE [c |-> [c EXCEPT !.rd = "sb",
                                  !.subBuf = @ \o <<cmdIAC, b>>,
                                  !.sbRef = IF b = cmdIAC THEN Append(@, cmdIAC)
                                            ELSE @ \o <<cmdIAC, b>>],
                  t |-> t, out |-> <<>>, err |-> FALSE]

\* part_004:45-97: RLoginStream.Read takes the byte b with ReadByte
RLoginByte(c, t, b) ==
    CASE c.state = 0 ->
            IF b = 255
            THEN [c |-> [c EXCEPT !.state = 1], t |-> t, out |-> <<>>, err |-> FALSE]
            ELSE [c |-> c, t |-> t, out |-> <<b>>, err |-> FALSE]
      [] c.state = 1 ->
            [c |-> [c EXCEPT !.state = IF b = 255 THEN 2 ELSE 0], t |-> t,
             out |-> <<>>, err |-> FALSE]
      [] c.state = 2 ->
            [c |-> [c EXCEPT !.state = IF b = 115 THEN 3 ELSE 0], t |-> t,
             out |-> <<>>, err |-> FALSE]
      [] c.state = 3 ->
            [c |-> [c EXCEPT !.state = IF b = 115 THEN 4 ELSE 0, !.winSizeBuf = <<>>],
             t |-> t, out |-> <<>>, err |-> FALSE]
      [] c.state = 4 ->
            LET wb == Append(c.winSizeBuf, b) IN
            IF Len(wb) = 8
            THEN LET rows == wb[1] * 256 + wb[2]
                     cols == wb[3] * 256 + wb[4]
                 IN IF t.on
                    THEN [c |-> [c EXCEPT !.state = 0, !.winSizeBuf = wb,
                                          !.naws = <<cols, rows>>],
                          t |-> Resize(t, cols, rows), out |-> <<>>, err |-> FALSE]
                    ELSE [c |-> [c EXCEPT !.state = 0, !.winSizeBuf = wb,
                                          !.naws = <<cols, rows>>,
                                          !.initialWidth = cols, !.initialHeight = rows],
                          t |-> t, out |-> <<>>, err |-> FALSE]
            ELSE [c |-> [c EXCEPT !.winSizeBuf = wb], t |-> t, out |-> <<>>, err |-> FALSE]

StreamByte(c, t, b, wfail) ==
    IF c.proto = "telnet" THEN TelnetByte(c, t, b, wfail) ELSE RLoginByte(c, t, b)

\* bytes.TrimSpace leaves nothing (part_002:964; part_000:258)
AllSpace(line) == \A i \in DOMAIN line : line[i] \in {9, 10, 11, 12, 13, 32}

\* readLine has returned (part_002:927-947, part_004:142-159): an empty
\* user name ends the handler, whose deferred c.Close() runs; after the
\* password the Terminal is made with the cached size and Run starts
LineEnd(c, t) ==
    IF c.phase = "user"
    THEN IF AllSpace(c.line)
         THEN [c |-> [c EXCEPT !.phase = "returned", !.closed = TRUE, !.line = <<>>],
               t |-> t]
         ELSE [c |-> [c EXCEPT !.phase = "pass", !.line = <<>>], t |-> t]
    ELSE [c |-> [c EXCEPT !.phase = "run", !.line = <<>>],
          t |-> NewTerminal(c.initialWidth, c.initialHeight)]

\* a Write on the connection can fail only after the peer has closed it
WriteFails(c) == IF c.closed THEN BOOLEAN ELSE {FALSE}

OtherVars == <<BaseFS, BaseFSDirCache, overlay, cwd, heap, last, fuel, active, tasks, pl>>

Alive == conn.on /\ conn.phase # "panic"

\* the client writes the bytes ch on the connection
Send(ch) ==
    /\ Alive /\ ~conn.closed /\ conn.left > 0 /\ conn.inbuf = <<>>
    /\ ch \in (IF conn.proto = "telnet" THEN TelnetChunks ELSE RLoginChunks)
    /\ conn' = [conn EXCEPT !.inbuf = ch, !.left = @ - 1]
    /\ UNCHANGED <<term, OtherVars>>

\* the client closes the connection
Close ==
    /\ Alive /\ ~conn.closed
    /\ conn' = [conn EXCEPT !.closed = TRUE]
    /\ UNCHANGED <<term, OtherVars>>

\* the handler goroutine before Run: one ReadByte of the four
\* reader.ReadBytes(0) of rlogin (part_004:109-124) or of readLine
\* (part_002:950-966) over the stream's Read
HandlerRead ==
    /\ Alive /\ conn.phase \in {"hs", "user", "pass"}
    /\ IF conn.inbuf # <<>>
       THEN LET b == Head(conn.inbuf)
                c0 == [conn EXCEPT !.inbuf = Tail(@)]
            IN IF conn.phase = "hs"
               THEN /\ conn' = IF b # 0 THEN c0
                               ELSE IF c0.nuls = 3
                               THEN [c0 EXCEPT !.nuls = 4, !.phase = "pass"]
                               ELSE [c0 EXCEPT !.nuls = @ + 1]
                    /\ term' = term
               ELSE \E wfail \in WriteFails(conn) :
                      LET r == StreamByte(c0, term, b, wfail)
                          e == LineEnd(r.c, r.t)
                      IN IF r.err \/ (r.out # <<>> /\ r.out[1] \in {10, 13})
                         THEN conn' = e.c /\ term' = e.t
                         ELSE /\ conn' = IF r.out = <<>> THEN r.c
                                         ELSE [r.c EXCEPT !.line = Append(@, r.out[1])]
                              /\ term' = r.t
       ELSE /\ conn.closed
            /\ IF conn.phase = "hs"
               THEN conn' = [conn EXCEPT !.phase = "returned"] /\ term' = term
               ELSE LET e == LineEnd(conn, term) IN conn' = e.c /\ term' = e.t
    /\ UNCHANGED OtherVars

\* bufio.Reader.ReadRune over single bytes (part_000:142): a byte that is
\* no UTF-8 gives utf8.RuneError
RuneOf(b) == IF b < 128 THEN b ELSE RuneError

\* []byte(string(r)) (part_000:155)
Utf8(r) == IF r = RuneError THEN <<239, 191, 189>> ELSE <<r>>

\* part_000:141: the loop condition of inputLoop
ILLoop ==
    /\ Alive /\ term.on /\ term.il = "loop"
    /\ term' = [term EXCEPT !.il = IF term.Running THEN "read" ELSE "done"]
    /\ UNCHANGED <<conn, OtherVars>>

\* part_000:142-146: ReadRune, one ReadByte of the stream's Read; an error
\* closes the key channel.  keyRaw notes whether the raw-mode writer was
\* set when the key was read
ILRead ==
    /\ Alive /\ term.on /\ term.il = "read"
    /\ IF conn.inbuf # <<>>
       THEN \E wfail \in WriteFails(conn) :
              LET r == StreamByte([conn EXCEPT !.inbuf = Tail(@)], term,
                                  Head(conn.inbuf), wfail)
              IN /\ conn' = r.c
                 /\ term' = IF r.err
                            THEN [r.t EXCEPT !.keyClosed = TRUE, !.il = "done"]
                            ELSE IF r.out = <<>> THEN r.t
                            ELSE [r.t EXCEPT !.key = RuneOf(r.out[1]), !.il = "key",
                                             !.keyRaw = r.t.RawModeWriter]
       ELSE /\ conn.closed
            /\ conn' = conn
            /\ term' = [term EXCEPT !.keyClosed = TRUE, !.il = "done"]
    /\ UNCHANGED OtherVars

\* part_000:148-152: the key goes to the foreground program or to the
\* line editor
ILDecide ==
    /\ Alive /\ term.on /\ term.il = "key"
    /\ term' = IF term.RawModeWriter
               THEN [term EXCEPT !.il = "rawwrite", !.rawpend = Utf8(term.key)]
               ELSE [term EXCEPT !.il = "send", !.forEditor = Append(@, term.key)]
    /\ UNCHANGED <<conn, OtherVars>>

\* a send that drops the key when the channel already holds one
KeySend_dropsWhenBusy(ch, r) == IF ch = <<>> THEN Append(ch, r) ELSE ch

\* part_000:160: t.keyChan <- r
KeySend(ch, r) == Append(ch, r)

ILSend ==
    /\ Alive /\ term.on /\ term.il = "send"
    /\ Len(term.keyChan) < KeyChanCap
    /\ term' = [term EXCEPT !.keyChan = KeySend(@, term.key), !.il = "loop"]
    /\ UNCHANGED <<conn, OtherVars>>

\* capacity of the game's InputBuffer (128 in the program,
\* game_kernel_panic.go:289, scaled down)
InputBufCap == 2

\* part_000:155: rawWriter.Write, taken byte by byte by the game's input
\* goroutine (game_kernel_panic.go:298-308); the Write fails once the pipe
\* is closed and the key is dropped
ILRawWrite ==
    /\ Alive /\ term.on /\ term.il = "rawwrite"
    /\ IF term.game.running
       THEN /\ Len(term.game.input) < InputBufCap
            /\ term' = [term EXCEPT !.game.input = Append(@, Head(term.rawpend)),
                                    !.rawpend = Tail(@),
                                    !.il = IF Len(term.rawpend) = 1 THEN "loop" ELSE @]
       ELSE term' = [term EXCEPT !.rawpend = <<>>, !.il = "loop"]
    /\ UNCHANGED <<conn, OtherVars>>

\* unicode.IsPrint for the runes of this model (part_000:287)
IsPrint(r) == r = RuneError \/ (r >= 32 /\ r < 127)

\* strings.Fields
RECURSIVE Fields(_)
Fields(s) ==
    IF s = <<>> THEN <<>>
    ELSE IF Head(s) = 32 THEN Fields(Tail(s))
    ELSE LET ends == {i \in 1..Len(s) : s[i] = 32}
             n == IF ends = {} THEN Len(s) + 1
                  ELSE CHOOSE i \in ends : \A j \in ends : i <= j
         IN <<SubSeq(s, 1, n - 1)>> \o Fields(SubSeq(s, n, Len(s)))

WordWget == <<119, 103, 101, 116>>

\* len(strings.Split(url, "/")) (part_002:352)
SplitLen(url) == Cardinality({i \in DOMAIN url : url[i] = 47}) + 1

\* part_000:182-299: the main loop takes one key from the key channel, or
\* finds it closed and empty.  No stream of this model holds ESC, TAB or
\* backspace.
MainRecv ==
    /\ Alive /\ term.on /\ term.main = "recv"
    /\ IF term.keyChan # <<>>
       THEN LET r == Head(term.keyChan)
                t0 == [term EXCEPT !.keyChan = Tail(@), !.received = Append(@, r)]
            IN term' =
                 CASE r = CtrlC -> [t0 EXCEPT !.buffer = <<>>]
                   [] r = CtrlD -> IF t0.buffer = <<>> THEN [t0 EXCEPT !.main = "returned"]
                                   ELSE t0
                   [] r \in {13, 10} ->
                        IF AllSpace(t0.buffer) THEN [t0 EXCEPT !.buffer = <<>>]
                        ELSE [t0 EXCEPT !.main = "exec", !.cmdline = t0.buffer]
                   [] OTHER -> IF IsPrint(r) THEN [t0 EXCEPT !.buffer = Append(@, r)]
                               ELSE t0
       ELSE /\ term.keyClosed
            /\ term' = [term EXCEPT !.main = "returned"]
    /\ UNCHANGED <<conn, OtherVars>>

\* part_000:266-273 with part_002:344-363, 537-561: execPipeline runs the
\* line.  wget indexes strings.Split(url, "/")[2]; kernelpanic sets the
\* raw-mode writer and runs the game; exit clears Running; any other
\* command of this model prints and returns
ExecPipeline ==
    /\ Alive /\ term.on /\ term.main = "exec"
    /\ LET args == Fields(term.cmdline)
           cmd == args[1]
       IN IF cmd = WordWget /\ Len(args) > 1 /\ SplitLen(args[Len(args)]) < 3
          THEN /\ conn' = [conn EXCEPT !.phase = "panic"]
               /\ term' = term
          ELSE /\ conn' = conn
               /\ term' =
                    IF cmd = LineGame
                    THEN [term EXCEPT !.main = "game", !.RawModeWriter = TRUE,
                                      !.game = [running |-> TRUE, State |-> 0,
                                                MenuIdx |-> 0, input |-> <<>>,
                                                Quit |-> FALSE, frame |-> 0]]
                    ELSE IF cmd = LineExit
                    THEN [term EXCEPT !.Running = FALSE, !.main = "returned"]
                    ELSE [term EXCEPT !.buffer = <<>>, !.cmdline = <<>>, !.main = "recv"]
    /\ UNCHANGED OtherVars

\* game_kernel_panic.go:50-57
KeyUp == 1001
KeyDown == 1002
KeyLeft == 1003

\* game_kernel_panic.go:336-384, with no escape sequence in progress
ParseKey(b) ==
    CASE b \in {13, 10} -> 13
      [] b = 119 -> KeyUp
      [] b = 115 -> KeyDown
      [] b = 97 -> KeyLeft
      [] OTHER -> b

\* game_kernel_panic.go:385-470: State, MenuIdx and Quit after a key
HandleKey(g, key) ==
    IF key = CtrlC THEN [g EXCEPT !.Quit = TRUE]
    ELSE CASE g.State = 0 ->
                CASE key = KeyUp -> [g EXCEPT !.MenuIdx = IF @ = 0 THEN 2 ELSE @ - 1]
                  [] key = KeyDown -> [g EXCEPT !.MenuIdx = IF @ = 2 THEN 0 ELSE @ + 1]
                  [] key \in {13, 32} ->
                        IF g.MenuIdx = 0 THEN [g EXCEPT !.State = 1]
                        ELSE IF g.MenuIdx = 1 THEN [g EXCEPT !.State = 4]
                        ELSE [g EXCEPT !.Quit = TRUE]
                  [] key = KeyQ -> [g EXCEPT !.Quit = TRUE]
                  [] OTHER -> g
           [] g.State = 4 -> IF key \in {13, 32, KeyQ} THEN [g EXCEPT !.State = 0] ELSE g
           [] g.State = 2 -> IF key \in {13, 32} THEN [g EXCEPT !.State = 1] ELSE g
           [] g.State = 3 -> IF key \in {13, 32, KeyQ} THEN [g EXCEPT !.State = 0] ELSE g
           [] OTHER -> g

\* game_kernel_panic.go:472-489: ProcessInput empties the InputBuffer
RECURSIVE ProcessInput(_, _)
ProcessInput(g, keys) ==
    IF keys = <<>> THEN g
    ELSE ProcessInput(HandleKey(g, ParseKey(Head(keys))), Tail(keys))

\* game_kernel_panic.go:317-331: one frame.  Update (493-535) leaves a game
\* in play (state 1) in play, levelling up (2) or over (3)
GameTick ==
    /\ Alive /\ term.on /\ term.main = "game" /\ ~term.game.Quit
    /\ LET g == ProcessInput([term.game EXCEPT !.input = <<>>], term.game.input)
       IN \E st \in (IF g.State = 1 THEN {1, 2, 3} ELSE {g.State}) :
            term' = [term EXCEPT !.game = [g EXCEPT !.State = st, !.frame = 1 - @]]
    /\ UNCHANGED <<conn, OtherVars>>

\* game_kernel_panic.go:317 with part_002:545-550 and part_000:267-273:
\* the game has quit, the deferred function clears the raw-mode writer and
\* closes the pipe, and the main loop goes on
GameEnd ==
    /\ Alive /\ term.on /\ term.main = "game" /\ term.game.Quit
    /\ term' = [term EXCEPT !.RawModeWriter = FALSE, !.game.running = FALSE,
                            !.game.input = <<>>,
                            !.buffer = <<>>, !.cmdline = <<>>, !.main = "recv"]
    /\ UNCHANGED <<conn, OtherVars>>

\* part_002:947-948, part_004:159-160: Run has returned, the handler
\* returns and its deferred c.Close() runs
HandlerReturn ==
    /\ Alive /\ term.on /\ term.main = "returned" /\ conn.phase = "run"
    /\ conn' = [conn EXCEPT !.phase = "returned", !.closed = TRUE]
    /\ UNCHANGED <<term, OtherVars>>

Protos == {"telnet", "rlogin"}

InitTerm ==
    /\ BaseFS = InitBaseFS
    /\ BaseFSDirCache = InitDirCache
    /\ overlay = <<>>
    /\ cwd = pRoot
    /\ heap = InitHeap
    /\ last = NoCall
    /\ fuel = 0
    /\ active = {}
    /\ tasks = <<>>
    /\ pl = Idle
    /\ term = Idle
    /\ \E p \in Protos : conn = NewConn(p)

HandlerSteps == HandlerRead \/ HandlerReturn
InputSteps == ILLoop \/ ILRead \/ ILDecide \/ ILSend \/ ILRawWrite
MainSteps == MainRecv \/ ExecPipeline \/ GameTick \/ GameEnd

NextTerm ==
    \/ \E ch \in TelnetChunks \cup RLoginChunks : Send(ch)
    \/ Close
    \/ HandlerRead
    \/ HandlerReturn
    \/ ILLoop
    \/ ILRead
    \/ ILDecide
    \/ ILSend
    \/ ILRawWrite
    \/ MainRecv
    \/ ExecPipeline
    \/ GameTick
    \/ GameEnd

\* every goroutine that can take a step eventually takes one; the client
\* owes nothing
SpecTerm ==
    /\ InitTerm /\ [][NextTerm]_vars
    /\ WF_vars(HandlerSteps) /\ WF_vars(InputSteps) /\ WF_vars(MainSteps)


\* C13: the keys the main loop has received, then the keys waiting in the
\* key channel, then the key the input goroutine is about to send, are
\* exactly the keys the input goroutine took for the line editor, in the
\* order it took them: none is lost, duplicated or reordered, whether the
\* main loop is idle, executing a command or running the game.
C13_KeyChanFIFO ==
    term.on =>
        term.forEditor = term.received \o term.keyChan
                            \o (IF term.il = "send" THEN <<term.key>> ELSE <<>>)

\* a command is executing, the key channel is full, the input goroutine
\* waits to send one more key, and the main loop has received keys before
C13_Witness ==
    /\ term.on /\ term.main = "exec"
    /\ Len(term.keyChan) = KeyChanCap /\ term.il = "send"
    /\ Len(term.received) >= 3


\* C14: whatever bytes the client sends before it closes the connection,
\* the handler terminates: nothing makes the process panic, every step of
\* a stream Read loop takes one byte off the input, and once the
\* connection is closed the handler eventually returns.
C14_NoPanic == conn.on => conn.phase # "panic"

C14_ReadProgress ==
    (HandlerRead \/ ILRead) /\ conn.inbuf # <<>>
        => Len(conn'.inbuf) = Len(conn.inbuf) - 1

C14_Returns == (conn.on /\ conn.closed) ~> (conn.phase = "returned")

C14_HandlerTerminates ==
    [](C14_NoPanic) /\ [][C14_ReadProgress]_vars /\ C14_Returns


\* C15: in a Telnet session the size the Terminal is created with is the
\* size of the last NAWS subnegotiation processed before (80x24 if none),
\* and at every later point the Terminal's size is the size of the last
\* NAWS subnegotiation processed so far.
C15_NawsSize ==
    (conn.on /\ conn.proto = "telnet") =>
        /\ ~term.on => <<conn.initialWidth, conn.initialHeight>> = conn.naws
        /\ term.on => <<term.Width, term.Height>> = conn.naws


\* C18: on every behaviour in which the process does not panic, once the
\* connection is closed under a running Terminal the main loop
\* (Terminal.Run) eventually exits, whatever was in the foreground at that
\* moment.
C18_RunExits == (term.on /\ conn.closed) ~> (term.on /\ term.main = "returned")

C18_ClosePropagates == [](C14_NoPanic) => C18_RunExits

\* the half of C18 about the key channel, on behaviours with no panic
C18_KeyChanClosed ==
    [](C14_NoPanic) => ((term.on /\ conn.closed) ~> (term.on /\ term.keyClosed))

-----------------------------------------------------------------------------
(* The shell: command lines typed one after the other into one Terminal   *)
(* (part_000:255-273, 373-409) and the exit code each leaves              *)
(* (part_002:20-563).  term is the Terminal: its lastExitCode, the last    *)
(* line and what it printed.                                               *)

\* number of command lines typed
MaxLines == 3

\* strconv.Itoa (part_002:33), as the characters of the decimal numeral
Digits == <<"0", "1", "2", "3", "4", "5", "6", "7", "8", "9">>

RECURSIVE Itoa(_)
Itoa(n) == IF n < 10 THEN <<Digits[n + 1]>>
           ELSE Append(Itoa(n \div 10), Digits[(n % 10) + 1])

\* part_002:26-38: the expansion of an argument that starts with `$`; the
\* Env of a session has no variable `?` (part_002:911-914, part_003:88-98)
Expand(word, code) ==
    IF word # <<>> /\ Head(word) = "$" /\ Tail(word) = <<"?">> THEN Itoa(code)
    ELSE word

WordStatus == <<"$", "?">>
WordHi == <<"h", "i">>
WordMode == <<"6", "4", "4">>
WordBad == <<"z">>

\* strconv.ParseInt(word, 8, 32) (part_002:384): the value, or -1 for an error
ParseOctal(word) ==
    IF word = WordMode THEN 420 ELSE -1

\* commands that take the path p (and cp, mv the path q)
PathCmds == {"ls", "cd", "cat", "cp", "mv", "rm", "grep", "head", "tail", "wc", "chmod"}

\* commands of the model that runCommand knows
KnownCmds == PathCmds \cup {"echo", "pwd", "mkdir"}

ShPaths == {pHosts, pTmp, pY}

ShellLines ==
    [cmd : {"ls", "cd", "cat", "rm", "grep", "head", "tail", "wc", "mkdir"},
     p : ShPaths, q : {Root}, word : {WordHi}]
    \cup [cmd : {"cp", "mv"}, p : ShPaths, q : {pY, pTmp}, word : {WordHi}]
    \cup [cmd : {"chmod"}, p : ShPaths, q : {Root}, word : {WordMode, WordBad}]
    \cup [cmd : {"echo"}, p : {Root}, q : {Root}, word : {WordStatus, WordHi}]
    \cup [cmd : {"pwd", "foo"}, p : {Root}, q : {Root}, word : {WordHi}]

\* part_002:20-563: runCommand on the filesystem st with working
\* directory wd and t.lastExitCode = code; what echo prints is kept in
\* out, the other output is not
RunCommand(st, wd, code, l) ==
    LET same == [st |-> st, cwd |-> wd, code |-> code, out |-> <<>>]
        g == GetEntry(st.ov, Clean(l.p))
    IN CASE l.cmd = "ls" ->
              IF ListDir(st.ov, l.p).err # "ok" THEN [same EXCEPT !.code = 2] ELSE same
         [] l.cmd = "cd" ->
              LET r == Cd([ov |-> st.ov, cwd |-> wd], l.p)
              IN [same EXCEPT !.cwd = r.cwd, !.code = IF r.err = "1" THEN 1 ELSE code]
         [] l.cmd = "cat" ->
              IF g.ok /\ ~g.e.IsDir THEN same ELSE [same EXCEPT !.code = 1]
         [] l.cmd = "echo" -> [same EXCEPT !.out = Expand(l.word, code)]
         [] l.cmd = "cp" ->
              LET r == Cp(st, l.p, l.q)
              IN [same EXCEPT !.st = r.st, !.code = IF r.err = "1" THEN 1 ELSE code]
         [] l.cmd = "mv" ->
              LET r == Mv(st, l.p, l.q)
              IN [same EXCEPT !.st = r.st, !.code = IF r.err = "1" THEN 1 ELSE code]
         [] l.cmd = "mkdir" -> [same EXCEPT !.st = Mkdir(st, l.p).st]
         [] l.cmd = "rm" ->
              LET r == Rm(st, l.p)
              IN [same EXCEPT !.st = r.st, !.code = IF r.err = "1" THEN 1 ELSE code]
         [] l.cmd \in {"grep", "head", "tail", "wc", "pwd"} -> same
         [] l.cmd = "chmod" ->
              IF ParseOctal(l.word) >= 0
              THEN [same EXCEPT !.st = Chmod(st, Clean(l.p), ParseOctal(l.word)).st]
              ELSE [same EXCEPT !.code = 1]
         [] OTHER -> [same EXCEPT !.code = 127]

\* the exit code execPipeline hands to runCommand (part_000:374)
ExecReset(code) == 0

NoLine == [cmd |-> "", p |-> Root, q |-> Root, word |-> <<>>]

\* part_000:255-273 with 373-409: Enter on the line l
TypeLine(l) ==
    /\ fuel > 0
    /\ term.on
    /\ LET r == RunCommand(St, cwd, ExecReset(term.lastExitCode), l)
           n == Normalise(r.st, NoHeld)
           g == GetEntry(overlay, Clean(l.p))
       IN /\ overlay' = n.ov
          /\ heap' = n.hp
          /\ cwd' = r.cwd
          /\ term' = [on |-> TRUE, lastExitCode |-> r.code, line |-> l,
                      out |-> r.out, prev |-> term.lastExitCode,
                      n |-> term.n + 1,
                      resolved |-> g.ok,
                      isDir |-> g.ok /\ g.e.IsDir]
    /\ fuel' = fuel - 1
    /\ UNCHANGED <<BaseFS, BaseFSDirCache, last, active, tasks, pl, conn>>

InitShell ==
    /\ BaseFS = InitBaseFS
    /\ BaseFSDirCache = InitDirCache
    /\ overlay = <<>>
    /\ cwd = pRoot
    /\ heap = InitHeap
    /\ last = NoCall
    /\ fuel = MaxLines
    /\ active = {}
    /\ tasks = <<>>
    /\ pl = Idle
    /\ conn = Idle
    /\ term = [on |-> TRUE, lastExitCode |-> 0, line |-> NoLine, out |-> <<>>,
               prev |-> 0, n |-> 0, resolved |-> FALSE, isDir |-> FALSE]

NextShell == \E l \in ShellLines : TypeLine(l)

SpecShell == InitShell /\ [][NextShell]_vars

\* C16: `echo $?` typed right after a command line prints the exit code
\* that command line ended with.
C16_EchoStatus ==
    (term.on /\ term.n >= 2 /\ term.line.cmd = "echo" /\ term.line.word = WordStatus)
        => term.out = Itoa(term.prev)

\* C17: after a command line, the exit code is 127 for an unknown command,
\* 1 for ls, cd, cat, cp, mv, rm, grep, head, tail, wc or chmod given a
\* path that does not resolve, and 0 for a command that succeeds (a known
\* command whose path, if it takes one, resolves to what it works on, and
\* whose mode, for chmod, is octal).
C17_Unknown == term.line.cmd \notin KnownCmds => term.lastExitCode = 127

C17_NotResolved ==
    (term.line.cmd \in PathCmds /\ ~term.resolved
        /\ (term.line.cmd = "chmod" => ParseOctal(term.line.word) >= 0))
        => term.lastExitCode = 1

C17_Success ==
    (/\ term.line.cmd \in KnownCmds
     /\ term.line.cmd \in PathCmds => term.resolved
     /\ term.line.cmd \in {"cat", "cp", "grep", "head", "tail", "wc"} => ~term.isDir
     /\ term.line.cmd \in {"cd", "ls"} => term.isDir
     /\ term.line.cmd = "chmod" => ParseOctal(term.line.word) >= 0)
        => term.lastExitCode = 0

C17_ExitCodes ==
    (term.on /\ term.n >= 1) => C17_Unknown /\ C17_NotResolved /\ C17_Success


-----------------------------------------------------------------------------
(* SFTP WriteAt: which locks are held while content bytes are copied *)

\* the step WriteAt task t is about to make copies content bytes:
\* copy(newContent, baseContent) in phase one (srv_sftp.go:119),
\* copy(newSlice, entry.Content) and copy(entry.Content[off:], p) in
\* phase two (srv_sftp.go:156, 167)
CopiesBytes(t) ==
    /\ tasks[t].op = "WriteAt"
    /\ \E a \in Acc(t) : a.loc[1] = "byte"

\* C19: whenever a WriteAt task is copying bytes into an entry's content
\* it holds that entry's lock exclusively and does not hold the
\* overlay-wide lock SessionFS.mu.
C19_TwoPhase ==
    \A t \in DOMAIN tasks :
        CopiesBytes(t) =>
            /\ [m |-> EntMu(EntOv(tasks[t].p)), x |-> TRUE] \in Locks(t)
            /\ \A l \in Locks(t) : l.m # FsMu


-----------------------------------------------------------------------------
(* Readers and SFTP WriteAt on one path *)

\* fs.go:71: fs.mu.RLock() of the GetEntry of cat (part_002:169)
CGet(t) ==
    /\ t \in DOMAIN tasks
    /\ tasks[t].op = "cat" /\ tasks[t].pc = "start"
    /\ CanLock(t, FsMu, FALSE)
    /\ Step(t, St, [tasks[t] EXCEPT !.pc = "C_inFs"])

\* fs.go:72-87: the lookup and RUnlock; part_002:169-183: a missing path
\* or a directory ends cat
CLook(t) ==
    /\ t \in DOMAIN tasks
    /\ tasks[t].op = "cat" /\ tasks[t].pc = "C_inFs"
    /\ LET k == tasks[t]
           g == GetEntry(overlay, k.p)
       IN IF ~g.ok \/ g.e.IsDir
          THEN Step(t, St, [k EXCEPT !.pc = "done", !.err = "1"])
          ELSE Step(t, St, [k EXCEPT !.pc = "C_found",
                              !.ent = IF g.layer = "overlay"
                                      THEN EntOv(Clean(k.p))
                                      ELSE EntBase(Clean(k.p))])

\* part_002:174: out.Write(e.Content), under no lock
CRead(t) ==
    /\ t \in DOMAIN tasks
    /\ tasks[t].op = "cat" /\ tasks[t].pc = "C_found"
    /\ LET k == tasks[t]
           e == IF k.ent[1] = "ov" THEN overlay[k.ent[2]] ELSE BaseFS[k.ent[2]]
       IN Step(t, St, [k EXCEPT !.pc = "done", !.out = Bytes(heap, e.Content)])

\* the calls made on the one file
RWMenu ==
    {NewTask("WriteAt", pHosts, d, 0) : d \in {<<3>>, <<4>>, <<4, 4, 4, 4>>}}
    \cup {NewTask("Fileread", pHosts, <<>>, 0), NewTask("cat", pHosts, <<>>, 0)}

\* `go` of one call; the goroutines are started before any of them runs
GoSame(k) ==
    /\ Len(tasks) < MaxTasks
    /\ \A i \in DOMAIN tasks : tasks[i].pc = "start"
    /\ tasks' = Append(tasks, k)
    /\ UNCHANGED <<BaseFS, BaseFSDirCache, overlay, cwd, heap, last, fuel, active, term, pl, conn>>

InitRW ==
    /\ BaseFS = InitBaseFS
    /\ BaseFSDirCache = InitDirCache
    /\ overlay = <<>>
    /\ cwd = pRoot
    /\ heap = InitHeap
    /\ last = NoCall
    /\ fuel = 0
    /\ active = {}
    /\ tasks = <<>>
    /\ term = Idle
    /\ pl = Idle
    /\ conn = Idle

NextRW ==
    \/ \E k \in RWMenu : GoSame(k)
    \/ \E t \in 1..MaxTasks : ALock(t)
    \/ \E t \in 1..MaxTasks : AFind(t)
    \/ \E t \in 1..MaxTasks : AEntryLock(t)
    \/ \E t \in 1..MaxTasks : ACopy(t)
    \/ \E t \in 1..MaxTasks : RGet(t)
    \/ \E t \in 1..MaxTasks : RLook(t)
    \/ \E t \in 1..MaxTasks : REntryRLock(t)
    \/ \E t \in 1..MaxTasks : RSnap(t)
    \/ \E t \in 1..MaxTasks : RRead(t)
    \/ \E t \in 1..MaxTasks : CGet(t)
    \/ \E t \in 1..MaxTasks : CLook(t)
    \/ \E t \in 1..MaxTasks : CRead(t)

SpecRW == InitRW /\ [][NextRW]_vars

\* the step reader task t is about to make reads content bytes of the
\* entry it found
ReadsBytes(t) ==
    /\ tasks[t].op \in {"Fileread", "cat"}
    /\ \E a \in Acc(t) : a.loc[1] = "byte"

\* C20: a task that reads an entry's content bytes (through the reader of
\* Fileread, or cat) holds that entry's read lock, so it never reads them
\* while a WriteAt task is copying into the same entry under no common
\* lock, and the bytes seen through a reader that Fileread has returned
\* are never changed by a WriteAt.
C20_ReadLocked ==
    \A t \in DOMAIN tasks :
        ReadsBytes(t) =>
            /\ \E l \in Locks(t) : l.m = EntMu(tasks[t].ent)
            /\ \A u \in DOMAIN tasks : tasks[u].op = "WriteAt" => ~Race(t, u)

C20_ReaderStable ==
    \A t \in DOMAIN tasks :
        (tasks[t].pc = "R_reading" /\ tasks'[t].pc = "R_reading")
            => Bytes(heap', tasks'[t].held) = Bytes(heap, tasks[t].held)

C20_ReadsUnderLock == [](C20_ReadLocked) /\ [][C20_ReaderStable]_vars

-----------------------------------------------------------------------------
(* Rename beside WriteAt (SpecRen).  One goroutine renames /tmp/x to       *)
(* /tmp/y while another is inside an SFTP WriteAt.  A WriteAt keeps the    *)
(* *FileEntry it found in phase one; when Rename replaces the map's value  *)
(* at that key the goroutine goes on with the entry it holds, which the    *)
(* map no longer has: held is then the Content header of that entry.       *)
(* Each step is one critical section (or, for Rename's struct copy, one    *)
(* unlocked read of the entry, taken as a whole).                          *)

\* calls made one at a time before the goroutines start
MaxRenPrelude == 3

NewRenTask(op, p, q, d, off) ==
    [op |-> op, p |-> p, q |-> q, data |-> d, off |-> off, pc |-> "start",
     ent |-> NoEnt, att |-> FALSE, held |-> NilSlice, e |-> Nil, err |-> "ok"]

\* the state after a step that leaves the goroutines as recs
StepAll(st, recs) ==
    LET n == Normalise(st, [i \in DOMAIN recs |-> recs[i].held]) IN
    /\ overlay' = n.ov
    /\ heap' = n.hp
    /\ tasks' = [i \in DOMAIN recs |-> [recs[i] EXCEPT !.held = n.held[i]]]
    /\ UNCHANGED <<BaseFS, BaseFSDirCache, cwd, last, fuel, active, term, pl, conn>>

\* the WriteAt calls that build the file before the goroutines start
RenPrelude(p, off) ==
    /\ tasks = <<>>
    /\ DoWriteAt(p, <<3>>, off)

\* `go` of the Rename of a file that exists and of one WriteAt
GoRen(w) ==
    /\ tasks = <<>>
    /\ GetEntry(overlay, pX).ok
    /\ tasks' = <<NewRenTask("Rename", pX, pY, <<>>, 0), w>>
    /\ last' = [op |-> "go", st |-> St]
    /\ UNCHANGED <<BaseFS, BaseFSDirCache, overlay, cwd, heap, fuel, active, term, pl, conn>>

\* srv_sftp.go:97-132: phase one of WriteAt, from Lock to Unlock
RenFind(t) ==
    /\ t \in DOMAIN tasks
    /\ tasks[t].op = "WriteAt" /\ tasks[t].pc = "start"
    /\ LET k == tasks[t] IN
       StepAll(WriteAtFind(St, k.p, Len(k.data), k.off),
               [tasks EXCEPT ![t] = [k EXCEPT !.pc = "A_wait", !.att = TRUE,
                                              !.ent = EntOv(k.p)]])

\* srv_sftp.go:135-170: phase two of WriteAt, on the entry phase one found
RenCopy(t) ==
    /\ t \in DOMAIN tasks
    /\ tasks[t].op = "WriteAt" /\ tasks[t].pc = "A_wait"
    /\ LET k    == tasks[t]
           c0   == IF k.att THEN overlay[k.p].Content ELSE k.held
           mine == [ov |-> (k.p :> [Content |-> c0, ModTime |-> TNow]),
                    hp |-> heap]
           r    == WriteAtCopy(IF k.att THEN St ELSE mine, k.p, k.data, k.off)
           done == [k EXCEPT !.pc = "done", !.held = NilSlice]
       IN IF WriteAtPanics(c0, Len(k.data), k.off)
          THEN StepAll(St, [tasks EXCEPT ![t] = [done EXCEPT !.err = "panic"]])
          ELSE StepAll(IF k.att THEN r.st ELSE [ov |-> overlay, hp |-> r.st.hp],
                       [tasks EXCEPT ![t] = [done EXCEPT !.err = r.err]])

\* fs.go:201-204: e, ok := fs.GetEntry(oldP)
RenGet(t) ==
    /\ t \in DOMAIN tasks
    /\ tasks[t].op = "Rename" /\ tasks[t].pc = "start"
    /\ LET k == tasks[t]
           g == GetEntry(overlay, k.p)
       IN StepAll(St, [tasks EXCEPT ![t] =
                    IF g.ok
                    THEN [k EXCEPT !.pc = "N_found",
                                   !.ent = IF InOverlay(Clean(k.p))
                                           THEN EntOv(Clean(k.p))
                                           ELSE EntBase(Clean(k.p))]
                    ELSE [k EXCEPT !.pc = "done", !.err = "ErrNotExist"]])

\* fs.go:209-213: newEntry := *e with the new name and time; no lock is
\* held, the struct is read as it is at this moment
RenShallow(t) ==
    /\ t \in DOMAIN tasks
    /\ tasks[t].op = "Rename" /\ tasks[t].pc = "N_found"
    /\ LET k == tasks[t]
           e == IF k.ent[1] = "ov" THEN overlay[k.ent[2]] ELSE BaseFS[k.ent[2]]
       IN StepAll(St, [tasks EXCEPT ![t] =
                    [k EXCEPT !.pc = "N_copied", !.held = e.Content,
                              !.e = [e EXCEPT !.Name = Base(k.q),
                                              !.ModTime = TNow,
                                              !.Content = NilSlice]]])

\* fs.go:215-219: the two stores under fs.mu.  A goroutine whose entry was
\* the map's value at one of the two keys keeps that entry
RenPut(t) ==
    /\ t \in DOMAIN tasks
    /\ tasks[t].op = "Rename" /\ tasks[t].pc = "N_copied"
    /\ LET k == tasks[t]
           keep(u) == IF u.att /\ u.ent \in {EntOv(k.p), EntOv(k.q)}
                      THEN [u EXCEPT !.att = FALSE,
                                     !.held = overlay[u.ent[2]].Content]
                      ELSE u
       IN StepAll([ov |-> RenameStore(overlay, k.p, k.q,
                                      [k.e EXCEPT !.Content = k.held]),
                   hp |-> heap],
                  [i \in DOMAIN tasks |->
                     IF i = t THEN [k EXCEPT !.pc = "done", !.held = NilSlice,
                                             !.e = Nil]
                     ELSE keep(tasks[i])])

\* the WriteAt that runs beside the Rename: on the old name or the new one
RenMenu ==
    {NewRenTask("WriteAt", p, p, d, off) :
        p \in {pX, pY}, d \in {<<4>>, <<4, 4>>}, off \in 0..3}

InitRen ==
    /\ BaseFS = InitBaseFS
    /\ BaseFSDirCache = InitDirCache
    /\ overlay = <<>>
    /\ cwd = pRoot
    /\ heap = InitHeap
    /\ last = NoCall
    /\ fuel = MaxRenPrelude
    /\ active = {}
    /\ tasks = <<>>
    /\ term = Idle
    /\ pl = Idle
    /\ conn = Idle

NextRen ==
    \/ \E p \in {pX, pY}, off \in 0..2 : RenPrelude(p, off)
    \/ \E w \in RenMenu : GoRen(w)
    \/ \E t \in 1..2 : RenFind(t)
    \/ \E t \in 1..2 : RenCopy(t)
    \/ \E t \in 1..2 : RenGet(t)
    \/ \E t \in 1..2 : RenShallow(t)
    \/ \E t \in 1..2 : RenPut(t)

SpecRen == InitRen /\ [][NextRen]_vars

\* both goroutines have returned
RenDone == tasks # <<>> /\ \A i \in DOMAIN tasks : tasks[i].pc = "done"

\* the filesystem after the two calls made one after the other, in either
\* order, on the state the goroutines started from
RenSerial ==
    LET w  == tasks[2]
        rn == tasks[1]
    IN {WriteAt(Rename(last.st, rn.p, rn.q).st, w.p, w.data, w.off).st,
        Rename(WriteAt(last.st, w.p, w.data, w.off).st, rn.p, rn.q).st}

\* C21: when Rename(a, b) runs beside a WriteAt that reaches the old entry
\* of a or the entry of b, the content then seen at b is the content
\* without the write or the whole result of the write, never a part of
\* it, and the bytes of every other entry are as they were.
C21_RenameWholeWrites ==
    RenDone =>
        /\ \E s \in RenSerial :
              ContentOf(overlay, heap, pY) = ContentOf(s.ov, s.hp, pY)
        /\ \A p \in Paths \ {pX, pY} :
              ContentOf(overlay, heap, p) = ContentOf(last.st.ov, last.st.hp, p)

-----------------------------------------------------------------------------
\* C22: in every reachable state every entry with IsDir = TRUE, in the
\* overlay or in BaseFS, has empty content.
C22_DirsEmpty ==
    /\ \A p \in DOMAIN overlay :
          (overlay[p] # Nil /\ overlay[p].IsDir) => overlay[p].Content.len = 0
    /\ \A p \in DOMAIN BaseFS : BaseFS[p].IsDir => BaseFS[p].Content.len = 0

-----------------------------------------------------------------------------
(* Listings (SpecList): calls that add, remove and rename the children of  *)
(* /tmp and /etc, among them a name in upper case, and SFTP List.          *)

MaxListOps == 3

pZ == <<"tmp", "Z">>

InitList ==
    /\ BaseFS = InitBaseFS
    /\ BaseFSDirCache = InitDirCache
    /\ overlay = <<>>
    /\ cwd = pRoot
    /\ heap = InitHeap
    /\ last = NoCall
    /\ fuel = MaxListOps
    /\ active = {}
    /\ tasks = <<>>
    /\ term = Idle
    /\ pl = Idle
    /\ conn = Idle

NextList ==
    \/ \E p \in {pX, pZ} : DoWrite(p, <<2>>, 0)
    \/ \E p \in {pX, pTmp} : DoMkdir(p)
    \/ \E p \in {pHosts, pX, pZ, pTmp} : DoRemove(p)
    \/ \E a \in {pHosts, pX, pZ} : \E b \in {pHosts, pX, pZ} \ {a} : DoRename(a, b)
    \/ \E a \in {pHosts, pZ} : DoMv(a, pTmp)
    \/ \E p \in {pZ, pHosts} : DoWriteAt(p, <<3>>, 0)
    \/ DoChmod(pHosts, 511)
    \/ \E d \in {pTmp, pEtc, pX, Root} : DoList(d)

SpecList == InitList /\ [][NextList]_vars

\* the names a child of a directory can have
ChildNames == {"etc", "hosts", "root", "tmp", "x", "y", "Z"}

\* the children the two layers give to d: those of BaseFS, without the
\* tombstoned ones, and the overlay's entries under d
MergedChildren(d) ==
    ({Base(c) : c \in {x \in DOMAIN BaseFS : x # d /\ Dir(x) = d}}
       \ {Base(k) : k \in {x \in DOMAIN overlay : overlay[x] = Nil /\ Dir(x) = d}})
    \cup {Base(k) : k \in {x \in DOMAIN overlay :
                             overlay[x] # Nil /\ x # d /\ Dir(x) = d}}

\* C23: ListDir(p) fails with NotFound exactly when p does not resolve to
\* a directory; otherwise its names are, without duplicates and in the
\* order of their lower-case forms, the BaseFS children of p that are not
\* tombstoned and the overlay entries under p, which are the names n for
\* which GetEntry(p/n) is found.
C23_ListDir ==
    last.op = "List" =>
        LET d     == Clean(last.p)
            g     == GetEntry(overlay, d)
            names == last.out
            S     == {names[i] : i \in DOMAIN names}
        IN /\ last.err \in {"ok", "ErrNotExist"}
           /\ last.err = "ErrNotExist" <=> ~(g.ok /\ g.e.IsDir)
           /\ last.err = "ok" =>
                /\ S = MergedChildren(d)
                /\ S = {n \in ChildNames : GetEntry(overlay, Join(d, n)).ok}
                /\ Len(names) = Cardinality(S)
                /\ \A i, j \in DOMAIN names :
                      i < j => ~StrLess(ToLower(NameBytes(names[j])),
                                        ToLower(NameBytes(names[i])))

\* /tmp listed with a tombstone, a lower-case and an upper-case name
C23_Witness ==
    /\ last.op = "List" /\ last.err = "ok"
    /\ last.out = <<"x", "Z">>
    /\ \E k \in DOMAIN overlay : overlay[k] = Nil

-----------------------------------------------------------------------------
(* Attributes (SpecAttr): Chmod and Chown, with modes that carry type      *)
(* bits and with the -1 of Chown, on files and directories of both layers, *)
(* on absent and on removed paths.                                         *)

MaxAttrOps == 3

\* modes given to Chmod: 0777, 0, and 0700 with the directory bit set
ChmodModes == {511, 0, 448 + ModeDir}

\* Chown (fs.go:250-282), the call recorded with its uid and gid
AttrChown(p, u, g) ==
    /\ fuel > 0
    /\ LET r == Chown(St, p, u, g)
       IN Commit(r.st, Call("Chown", p, Root, <<>>, 0, r.err, <<u, g>>))

InitAttr ==
    /\ BaseFS = InitBaseFS
    /\ BaseFSDirCache = InitDirCache
    /\ overlay = <<>>
    /\ cwd = pRoot
    /\ heap = InitHeap
    /\ last = NoCall
    /\ fuel = MaxAttrOps
    /\ active = {}
    /\ tasks = <<>>
    /\ term = Idle
    /\ pl = Idle
    /\ conn = Idle

NextAttr ==
    \/ \E p \in {pHosts, pX, pTmp}, m \in ChmodModes : DoChmod(p, m)
    \/ \E p \in {pHosts, pX, pTmp}, u \in {-1, 1000}, g \in {-1, 1000} : AttrChown(p, u, g)
    \/ DoWrite(pX, <<2>>, 384)
    \/ DoMkdir(pX)
    \/ DoRemove(pHosts)
    \/ DoRename(pHosts, pX)

SpecAttr == InitAttr /\ [][NextAttr]_vars

\* what a path shows: whether it resolves, the fields of its entry other
\* than ModTime, and its bytes
Shown(ov, hp, q) ==
    LET g == GetEntry(ov, q) IN
    IF ~g.ok THEN <<FALSE>>
    ELSE <<TRUE, g.e.Name, g.e.IsDir, g.e.Mode, g.e.UID, g.e.GID, g.e.Nlink,
           Bytes(hp, g.e.Content)>>

\* C24: Chmod(p, m) changes only the nine permission bits of p's entry,
\* Chown(p, uid, gid) keeps a field whose argument is -1 and sets the
\* other, both leave every other path's entry and BaseFS unchanged, and
\* both fail with NotFound and leave the overlay unchanged when p does
\* not resolve.
C24_AttrStep ==
    last'.op \in {"Chmod", "Chown"} =>
        LET p  == last'.p
            g  == GetEntry(overlay, p)
            g2 == GetEntry(overlay', p)
        IN /\ BaseFS' = BaseFS
           /\ \A a \in DOMAIN InitHeap : heap'[a] = heap[a]
           /\ \A q \in (Paths \cup DOMAIN overlay \cup DOMAIN overlay') \ {p} :
                 Shown(overlay', heap', q) = Shown(overlay, heap, q)
           /\ ~g.ok => last'.err = "ErrNotExist" /\ overlay' = overlay
           /\ g.ok =>
                 /\ last'.err = "ok" /\ g2.ok
                 /\ g2.e.Name = g.e.Name /\ g2.e.IsDir = g.e.IsDir
                 /\ Bytes(heap', g2.e.Content) = Bytes(heap, g.e.Content)
                 /\ last'.op = "Chmod" =>
                       /\ g2.e.Mode % 512 = last'.off % 512
                       /\ g2.e.Mode \div 512 = g.e.Mode \div 512
                       /\ g2.e.UID = g.e.UID /\ g2.e.GID = g.e.GID
                 /\ last'.op = "Chown" =>
                       /\ g2.e.Mode = g.e.Mode
                       /\ g2.e.UID = (IF last'.out[1] = -1 THEN g.e.UID
                                      ELSE last'.out[1])
                       /\ g2.e.GID = (IF last'.out[2] = -1 THEN g.e.GID
                                      ELSE last'.out[2])

C24_ChmodChownFrame == [][C24_AttrStep]_vars

\* a directory of BaseFS whose owner Chown has set with gid -1, after a
\* Chmod with mode 0
C24_Witness ==
    /\ last.op = "Chmod" /\ last.err = "ok" /\ last.p = pTmp /\ last.off = 0
    /\ overlay[pTmp].Mode = ModeDir
    /\ overlay[pTmp].UID = 1000 /\ overlay[pTmp].GID = 0

-----------------------------------------------------------------------------
(* Command lines (SpecLine): the bytes of a line typed at the prompt, from *)
(* Enter to the return of execPipeline.  The commands are echo and names   *)
(* runCommand does not know; a stage's output is a byte sequence.          *)

MaxCmdLines == 3

chSpace == 32
chDQuote == 34
chSQuote == 39
chGT == 62
chPipe == 124

\* part_000:477-511: parseArgs from index i on; quote is the quote rune
\* the scan is inside of, or 0
RECURSIVE ParseFrom(_, _, _, _, _)
ParseFrom(s, i, buf, quote, args) ==
    IF i > Len(s) THEN (IF buf # <<>> THEN Append(args, buf) ELSE args)
    ELSE LET r == s[i] IN
         IF r \in {chDQuote, chSQuote}
         THEN IF quote = 0 THEN ParseFrom(s, i + 1, buf, r, args)
              ELSE IF r = quote THEN ParseFrom(s, i + 1, buf, 0, args)
              ELSE ParseFrom(s, i + 1, Append(buf, r), quote, args)
         ELSE IF r = chSpace /\ quote = 0
              THEN ParseFrom(s, i + 1, <<>>, 0,
                             IF buf # <<>> THEN Append(args, buf) ELSE args)
              ELSE ParseFrom(s, i + 1, Append(buf, r), quote, args)

parseArgs(cmdline) == ParseFrom(cmdline, 1, <<>>, 0, <<>>)

\* strings.Join(args, " ")
RECURSIVE JoinArgs(_)
JoinArgs(args) ==
    IF args = <<>> THEN <<>>
    ELSE IF Len(args) = 1 THEN args[1]
    ELSE args[1] \o <<chSpace>> \o JoinArgs(Tail(args))

\* strings.Split(cmdline, "|") from index i on
RECURSIVE SplitFrom(_, _, _, _)
SplitFrom(s, i, cur, acc) ==
    IF i > Len(s) THEN Append(acc, cur)
    ELSE IF s[i] = chPipe THEN SplitFrom(s, i + 1, <<>>, Append(acc, cur))
    ELSE SplitFrom(s, i + 1, Append(cur, s[i]), acc)

\* part_000:20-35: CRLFWriter.Write
RECURSIVE Crlf(_)
Crlf(p) ==
    IF p = <<>> THEN <<>>
    ELSE (IF Head(p) = NL THEN <<CR, NL>> ELSE <<Head(p)>>) \o Crlf(Tail(p))

WordEcho == <<101, 99, 104, 111>>

\* part_002:190-192 and 558-560: what runCommand writes to out and the
\* exit code it sets (0: it leaves the code alone); the text after the
\* name of an unknown command is shortened to ":"
RunArgs(args) ==
    IF args[1] = WordEcho
    THEN [out |-> JoinArgs(Tail(args)) \o <<NL>>, code |-> 0]
    ELSE [out |-> args[1] \o <<58, NL>>, code |-> 127]

\* fs.go:50-64: Abs of a relative name of one letter
AbsName(wd, tok) ==
    CASE tok = <<120>> -> Clean(Append(wd, "x"))
      [] tok = <<121>> -> Clean(Append(wd, "y"))

\* part_000:383-392: the index of the first `>` or `>>` that has a token
\* after it, or 0
RedirectAt(parts) ==
    LET I == {i \in 1..(Len(parts) - 1) : parts[i] \in {<<chGT>>, <<chGT, chGT>>}}
    IN IF I = {} THEN 0 ELSE CHOOSE i \in I : \A j \in I : i <= j

\* part_000:411-475: the argument lists runCommand is called with
Commands(pipeline) ==
    LET all == [i \in DOMAIN pipeline |-> parseArgs(pipeline[i])]
        some(a) == a # <<>>
    IN SelectSeq(all, some)

\* part_000:373-409: execPipeline
ExecLine(l) ==
    /\ fuel > 0
    /\ term.on
    /\ LET parts    == parseArgs(l)
           i        == RedirectAt(parts)
           cmdline  == IF i > 0 THEN JoinArgs(SubSeq(parts, 1, i - 1)) ELSE l
           commands == Commands(SplitFrom(cmdline, 1, <<>>, <<>>))
           n        == Len(commands)
           buf      == IF n = 0 THEN <<>> ELSE RunArgs(commands[n]).out
           code     == IF \E k \in 1..n : RunArgs(commands[k]).code = 127
                       THEN 127 ELSE 0
           target   == IF i > 0 THEN AbsName(cwd, parts[i + 1]) ELSE Root
           b        == NewBytes(heap, buf)
           w        == IF i > 0
                       THEN Write([ov |-> overlay, hp |-> b.hp], target, b.s, 420).st
                       ELSE St
           nn       == Normalise(w, NoHeld)
       IN /\ overlay' = nn.ov
          /\ heap' = nn.hp
          /\ term' = [on |-> TRUE, line |-> l, argvs |-> commands,
                      tty |-> IF i > 0 THEN <<>> ELSE Crlf(buf),
                      buf |-> buf, lastExitCode |-> code,
                      redirected |-> i > 0, target |-> target,
                      before |-> ContentOf(overlay, heap, target),
                      n |-> term.n + 1]
    /\ fuel' = fuel - 1
    /\ UNCHANGED <<BaseFS, BaseFSDirCache, cwd, last, active, tasks, pl, conn>>

\* a line from words separated by one space
Words(ws) == JoinArgs(ws)

CmdLines ==
    {Words(<<WordEcho, <<97>>>>),                                 \* echo a
     Words(<<WordEcho, <<97>>, <<chGT>>, <<120>>>>),              \* echo a > x
     Words(<<WordEcho, <<97>>, <<chGT>>, <<120>>, <<98>>>>),      \* echo a > x b
     Words(<<WordEcho, <<98>>, <<chGT, chGT>>, <<121>>>>),        \* echo b >> y
     Words(<<WordEcho, <<97>>, <<chGT>>>>),                       \* echo a >
     Words(<<<<chGT>>, <<120>>>>),                                \* > x
     Words(<<<<102>>, <<chGT>>, <<120>>>>),                       \* f > x
     Words(<<WordEcho, <<97>>, <<chPipe>>, WordEcho, <<98>>, <<chGT>>, <<120>>>>),
                                                                  \* echo a | echo b > x
     Words(<<WordEcho, <<97, 97, 97, 97, 97, 97>>, <<chGT>>, <<120>>>>),
                                                                  \* echo aaaaaa > x
     Words(<<WordEcho, <<chDQuote, 97, chSpace, chSpace, 98, chDQuote>>>>),
                                                                  \* echo "a  b"
     Words(<<WordEcho, <<chDQuote, 97, chSpace, chSpace, 98, chDQuote>>,
             <<chGT>>, <<120>>>>),                                \* echo "a  b" > x
     Words(<<WordEcho, <<chDQuote, 97, chPipe, 98, chDQuote>>>>), \* echo "a|b"
     Words(<<WordEcho, <<chSQuote, 97, chGT, 98, chSQuote>>>>),   \* echo 'a>b'
     Words(<<WordEcho, <<chSQuote, 97, chSpace, chGT, chSpace, 98, chSQuote>>>>),
                                                                  \* echo 'a > b'
     Words(<<WordEcho, <<chDQuote, chGT, chDQuote>>, <<120>>>>)}  \* echo ">" x

InitLine ==
    /\ BaseFS = InitBaseFS
    /\ BaseFSDirCache = InitDirCache
    /\ overlay = <<>>
    /\ cwd = pRoot
    /\ heap = InitHeap
    /\ last = NoCall
    /\ fuel = MaxCmdLines
    /\ active = {}
    /\ tasks = <<>>
    /\ pl = Idle
    /\ conn = Idle
    /\ term = [on |-> TRUE, line |-> <<>>, argvs |-> <<>>, tty |-> <<>>,
               buf |-> <<>>, lastExitCode |-> 0, redirected |-> FALSE,
               target |-> Root, before |-> <<>>, n |-> 0]

NextLine == \E l \in CmdLines : ExecLine(l)

SpecLine == InitLine /\ [][NextLine]_vars

\* the line has no quote character
NoQuote(l) == \A k \in DOMAIN l : l[k] \notin {chDQuote, chSQuote}

\* the argument lists of the stages as one token list, `|` between them
RECURSIVE FlatArgv(_)
FlatArgv(argvs) ==
    IF argvs = <<>> THEN <<>>
    ELSE IF Len(argvs) = 1 THEN argvs[1]
    ELSE argvs[1] \o <<<<chPipe>>>> \o FlatArgv(Tail(argvs))

\* C25: for a command line with a `>` or `>>` token followed by a target,
\* the commands get every token of the line except those two, nothing is
\* written to the terminal, and the target's content is then the final
\* output of the pipeline (when that output is within the quota).
C25_Redirection ==
    (term.on /\ term.n > 0 /\ NoQuote(term.line)
       /\ RedirectAt(parseArgs(term.line)) > 0) =>
        LET parts == parseArgs(term.line)
            i     == RedirectAt(parts)
        IN /\ FlatArgv(term.argvs)
                = SubSeq(parts, 1, i - 1) \o SubSeq(parts, i + 2, Len(parts))
           /\ term.tty = <<>>
           /\ Len(term.buf) <= MaxFileSize =>
                ContentOf(overlay, heap, AbsName(cwd, parts[i + 1])) = term.buf

\* the tokens of a line when quoted spans are literal: each byte with
\* whether it stood inside quotes
RECURSIVE QuotedFrom(_, _, _, _, _)
QuotedFrom(s, i, buf, quote, toks) ==
    IF i > Len(s) THEN (IF buf # <<>> THEN Append(toks, buf) ELSE toks)
    ELSE LET r == s[i] IN
         IF quote = 0 /\ r \in {chDQuote, chSQuote}
         THEN QuotedFrom(s, i + 1, buf, r, toks)
         ELSE IF quote # 0 /\ r = quote
         THEN QuotedFrom(s, i + 1, buf, 0, toks)
         ELSE IF quote = 0 /\ r = chSpace
         THEN QuotedFrom(s, i + 1, <<>>, 0,
                         IF buf # <<>> THEN Append(toks, buf) ELSE toks)
         ELSE QuotedFrom(s, i + 1, Append(buf, [c |-> r, q |-> quote # 0]),
                         quote, toks)

\* the bytes of a token
TokWord(t) == [j \in DOMAIN t |-> t[j].c]

\* the token is an operator: `>` or `>>` written outside quotes
IsRedirectTok(t) ==
    /\ TokWord(t) \in {<<chGT>>, <<chGT, chGT>>}
    /\ \A j \in DOMAIN t : ~t[j].q

\* the arguments of the command of a line with no `|` outside quotes: its
\* tokens without the redirection operator and its target
LiteralArgv(l) ==
    LET toks == QuotedFrom(l, 1, <<>>, 0, <<>>)
        I    == {i \in 1..(Len(toks) - 1) : IsRedirectTok(toks[i])}
        i    == IF I = {} THEN 0 ELSE CHOOSE x \in I : \A y \in I : x <= y
        keep == IF i = 0 THEN toks
                ELSE SubSeq(toks, 1, i - 1) \o SubSeq(toks, i + 2, Len(toks))
    IN [k \in DOMAIN keep |-> TokWord(keep[k])]

\* the line has a quoted span and no `|` outside quotes
QuotedOneStage(l) ==
    LET toks == QuotedFrom(l, 1, <<>>, 0, <<>>) IN
    /\ ~NoQuote(l)
    /\ \A i \in DOMAIN toks : \A j \in DOMAIN toks[i] :
          toks[i][j].c = chPipe => toks[i][j].q

\* C26: a quoted span with whitespace, `|` or `>` in it reaches its
\* command as part of one argument, byte for byte, and does not split the
\* line into stages, with or without an output redirection on the line.
C26_QuotesLiteral ==
    (term.on /\ term.n > 0 /\ QuotedOneStage(term.line)) =>
        term.argvs = <<LiteralArgv(term.line)>>

\* C27: when the output collected for `cmd > path` is larger than
\* MaxFileSize, the command line does not end with exit code 0 and the
\* target path is as it was.
C27_QuotaReported ==
    (term.on /\ term.n > 0 /\ term.redirected /\ Len(term.buf) > MaxFileSize) =>
        /\ term.lastExitCode # 0
        /\ ContentOf(overlay, heap, term.target) = term.before

\* the second half of C27 alone
C27_TargetUnchanged ==
    (term.on /\ term.n > 0 /\ term.redirected /\ Len(term.buf) > MaxFileSize) =>
        ContentOf(overlay, heap, term.target) = term.before

-----------------------------------------------------------------------------
(* The line editor's history (SpecHist): the main loop of Terminal.Run on  *)
(* printable keys, the Up and Down arrows and Enter.  The cap of 100       *)
(* entries is scaled to HistCap.                                           *)

HistCap == 3

MaxEnters == 5

\* the lines that can be typed: a blank one, two letters, a letter and a blank
HistLines == {<<chSpace>>, <<97>>, <<98>>, <<97, chSpace>>}

\* a wrong cap: the newest entry is dropped
HistoryAppend_dropsNewest(h, cmd) ==
    IF h = <<>> \/ h[Len(h)] # cmd
    THEN (IF Len(h) + 1 > HistCap THEN h ELSE Append(h, cmd))
    ELSE h

\* part_000:259-264
HistoryAppend(h, cmd) ==
    IF h = <<>> \/ h[Len(h)] # cmd
    THEN (IF Len(h) + 1 > HistCap THEN Tail(Append(h, cmd)) ELSE Append(h, cmd))
    ELSE h

HistVars == <<BaseFS, BaseFSDirCache, overlay, cwd, heap, last, active, tasks, pl, conn>>

\* part_000:286-296: a printable rune, the cursor at the end of the line
HistKey(r) ==
    /\ term.on
    /\ Append(term.buffer, r) \in HistLines
    /\ term' = [term EXCEPT !.buffer = Append(@, r)]
    /\ UNCHANGED <<HistVars, fuel>>

\* part_000:199-212: ESC [ A
HistUp ==
    /\ term.on
    /\ LET idx == IF term.histIdx = -1 THEN Len(term.History) ELSE term.histIdx
       IN term' = IF term.History = <<>> THEN term
                  ELSE IF idx > 0
                  THEN [term EXCEPT !.histIdx = idx - 1, !.buffer = term.History[idx]]
                  ELSE [term EXCEPT !.histIdx = idx]
    /\ UNCHANGED <<HistVars, fuel>>

\* part_000:213-226: ESC [ B
HistDown ==
    /\ term.on
    /\ term' = IF term.histIdx < Len(term.History)
               THEN IF term.histIdx + 1 >= Len(term.History)
                    THEN [term EXCEPT !.histIdx = Len(term.History), !.buffer = <<>>]
                    ELSE [term EXCEPT !.histIdx = @ + 1,
                                      !.buffer = term.History[term.histIdx + 2]]
               ELSE term
    /\ UNCHANGED <<HistVars, fuel>>

\* part_000:255-273: Enter; entered is the list of the lines given to
\* execPipeline so far
HistEnter ==
    /\ term.on
    /\ fuel > 0
    /\ LET cmd == term.buffer
           h   == HistoryAppend(term.History, cmd)
       IN term' = IF ~AllSpace(cmd)
                  THEN [term EXCEPT !.History = h, !.histIdx = Len(h),
                                    !.entered = Append(@, cmd), !.buffer = <<>>]
                  ELSE [term EXCEPT !.buffer = <<>>]
    /\ fuel' = fuel - 1
    /\ UNCHANGED HistVars

InitHist ==
    /\ BaseFS = InitBaseFS
    /\ BaseFSDirCache = InitDirCache
    /\ overlay = <<>>
    /\ cwd = pRoot
    /\ heap = InitHeap
    /\ last = NoCall
    /\ fuel = MaxEnters
    /\ active = {}
    /\ tasks = <<>>
    /\ pl = Idle
    /\ conn = Idle
    /\ term = [on |-> TRUE, buffer |-> <<>>, History |-> <<>>, histIdx |-> -1,
               entered |-> <<>>]

NextHist ==
    \/ \E r \in {chSpace, 97, 98} : HistKey(r)
    \/ HistUp
    \/ HistDown
    \/ HistEnter

SpecHist == InitHist /\ [][NextHist]_vars

\* a list without its consecutive duplicates
RECURSIVE Collapse(_)
Collapse(s) ==
    IF Len(s) <= 1 THEN s
    ELSE LET c == Collapse(SubSeq(s, 1, Len(s) - 1))
         IN IF c[Len(c)] = s[Len(s)] THEN c ELSE Append(c, s[Len(s)])

\* the last n elements of s
LastN(s, n) == IF Len(s) <= n THEN s ELSE SubSeq(s, Len(s) - n + 1, Len(s))

\* C28: the history has at most HistCap (100) entries, no two adjacent
\* entries are equal, no entry is blank, and the entries are the commands
\* entered, in their order, consecutive duplicates collapsed, the oldest
\* dropped first.
C28_History ==
    term.on =>
        /\ Len(term.History) <= HistCap
        /\ \A i \in 1..(Len(term.History) - 1) : term.History[i] # term.History[i + 1]
        /\ \A i \in DOMAIN term.History : ~AllSpace(term.History[i])
        /\ term.History = LastN(Collapse(term.entered), HistCap)

\* the cap has been passed and a repeated command has been collapsed
C28_Witness ==
    /\ term.on
    /\ Len(term.History) = HistCap
    /\ Len(Collapse(term.entered)) > HistCap
    /\ Len(Collapse(term.entered)) < Len(term.entered)

-----------------------------------------------------------------------------
(* The Telnet stream alone (SpecNeg): TelnetStream.Read called until the   *)
(* bytes a client wrote are used up, before the Terminal exists.  sent is  *)
(* what the server wrote on the connection, got what Read returned.        *)

MaxChunks == 3

optEcho == 1
optSGA == 3
optTTYPE == 24
optNewEnv == 39

\* part_002:811-824: sendTTYPErequest and sendNEWENVrequest
SendRequest(opt) ==
    IF opt = optTTYPE THEN <<cmdIAC, cmdSB, optTTYPE, 1, cmdIAC, cmdSE>>
    ELSE IF opt = optNewEnv
    THEN <<cmdIAC, cmdSB, optNewEnv, 1, 0, 85, 83, 69, 82, 0, 84, 69, 82, 77,
           cmdIAC, cmdSE>>
    ELSE <<>>

\* part_002:700-739: the bytes handleOption writes on the connection
OptionAnswer(c, cmd, opt) ==
    IF opt \in c.negotiated THEN <<>>
    ELSE IF cmd = cmdWILL
    THEN IF opt \in {optTTYPE, optNAWS, optNewEnv}
         THEN <<cmdIAC, cmdDO, opt>> \o SendRequest(opt)
         ELSE <<cmdIAC, cmdDONT, opt>>
    ELSE IF cmd = cmdDO
    THEN IF opt \in {optSGA, optEcho}
         THEN <<cmdIAC, cmdWILL, opt>>
         ELSE <<cmdIAC, cmdWONT, opt>>
    ELSE <<>>

\* Read called again and again on the bytes bs; ev is the last option
\* command with its answer, acc the commands answered with an acceptance
\* (was: this command was accepted before, neg: negotiatedOptions[opt])
RECURSIVE ReadAll(_, _)
ReadAll(c, bs) ==
    IF bs = <<>> THEN c
    ELSE LET b   == Head(bs)
             r   == TelnetByte(c, term, b, FALSE)
             opt == c.rd = "opt"
             ans == IF opt THEN OptionAnswer(c, c.cmd, b) ELSE <<>>
             yes == Len(ans) >= 3 /\ ans[2] \in {cmdDO, cmdWILL}
         IN ReadAll([r.c EXCEPT
                       !.sent = @ \o ans,
                       !.got  = @ \o r.out,
                       !.ev   = IF opt THEN [cmd |-> c.cmd, opt |-> b, ans |-> ans,
                                             was |-> <<c.cmd, b>> \in c.acc,
                                             neg |-> b \in c.negotiated]
                                ELSE @,
                       !.acc  = IF opt /\ yes THEN @ \cup {<<c.cmd, b>>} ELSE @],
                    Tail(bs))

\* what a client writes in one call: text, line ends, a doubled IAC,
\* option commands and a window size
NegChunks ==
    { <<97>>, <<CR, 10>>, <<CR, 0>>, <<cmdIAC, cmdIAC>>,
      <<cmdIAC, cmdDO, optEcho>>, <<cmdIAC, cmdWILL, optEcho>>,
      <<cmdIAC, cmdDO, optNAWS>>, <<cmdIAC, cmdWILL, optNAWS>>,
      <<cmdIAC, cmdWILL, optTTYPE>>, <<cmdIAC, cmdWILL, optNewEnv>>,
      <<cmdIAC, cmdDO, 5>>, <<cmdIAC, cmdWILL, 5>>,
      <<cmdIAC, cmdWONT, optEcho>>, <<cmdIAC, cmdDONT, optSGA>>,
      NawsBytes(120, 24) }

NoEvent == [cmd |-> 0, opt |-> 0, ans |-> <<>>, was |-> FALSE, neg |-> FALSE]

NegFeed(ch) ==
    /\ conn.on /\ fuel > 0
    /\ conn' = ReadAll([conn EXCEPT !.fed = @ \o ch, !.ev = NoEvent], ch)
    /\ fuel' = fuel - 1
    /\ UNCHANGED <<BaseFS, BaseFSDirCache, overlay, cwd, heap, last, active,
                   tasks, term, pl>>

InitNeg ==
    /\ BaseFS = InitBaseFS
    /\ BaseFSDirCache = InitDirCache
    /\ overlay = <<>>
    /\ cwd = pRoot
    /\ heap = InitHeap
    /\ last = NoCall
    /\ fuel = MaxChunks
    /\ active = {}
    /\ tasks = <<>>
    /\ term = Idle
    /\ pl = Idle
    /\ conn = NewConn("telnet")
                @@ [fed |-> <<>>, sent |-> <<>>, got |-> <<>>, ev |-> NoEvent,
                    acc |-> {}]

NextNeg == \E ch \in NegChunks : NegFeed(ch)

SpecNeg == InitNeg /\ [][NextNeg]_vars

\* the answer the policy gives to an option command; was: this command
\* was accepted before
PolicyAnswer(cmd, opt, was) ==
    IF cmd = cmdDO
    THEN IF opt \in {optSGA, optEcho}
         THEN (IF was THEN <<>> ELSE <<cmdIAC, cmdWILL, opt>>)
         ELSE <<cmdIAC, cmdWONT, opt>>
    ELSE IF opt \in {optTTYPE, optNAWS, optNewEnv}
         THEN (IF was THEN <<>> ELSE <<cmdIAC, cmdDO, opt>> \o SendRequest(opt))
         ELSE <<cmdIAC, cmdDONT, opt>>

\* C29: IAC DO opt is answered with WILL for SGA and ECHO and with WONT
\* for every other option, IAC WILL opt with DO (and a SEND request for
\* TTYPE and NEW-ENVIRON) for TTYPE, NAWS and NEW-ENVIRON and with DONT
\* for every other option, and a command accepted before is not answered
\* again.
C29_Negotiation ==
    (conn.on /\ conn.ev.cmd \in {cmdDO, cmdWILL}) =>
        conn.ev.ans = PolicyAnswer(conn.ev.cmd, conn.ev.opt, conn.ev.was)


\* a command for an option not accepted in either direction gets the answer
\* of the policy, and one for an option in negotiatedOptions gets none
C29_FirstAnswers ==
    (conn.on /\ conn.ev.cmd \in {cmdDO, cmdWILL}) =>
        conn.ev.ans = IF conn.ev.neg THEN <<>>
                      ELSE PolicyAnswer(conn.ev.cmd, conn.ev.opt, FALSE)

\* the bytes after the IAC SE that closes a subnegotiation
RECURSIVE AfterSE(_)
AfterSE(s) ==
    IF Len(s) < 2 THEN <<>>
    ELSE IF s[1] = cmdIAC
    THEN (IF s[2] = cmdSE THEN SubSeq(s, 3, Len(s))
          ELSE AfterSE(SubSeq(s, 3, Len(s))))
    ELSE AfterSE(Tail(s))

\* the input with the protocol traffic taken out: IAC IAC is one 255,
\* option commands, subnegotiations and other commands are nothing, CR LF
\* and CR NUL are one line feed, every other byte is itself
RECURSIVE Stripped(_)
Stripped(s) ==
    IF s = <<>> THEN <<>>
    ELSE IF s[1] = cmdIAC
    THEN IF Len(s) < 2 THEN <<>>
         ELSE IF s[2] = cmdIAC THEN <<cmdIAC>> \o Stripped(SubSeq(s, 3, Len(s)))
         ELSE IF s[2] \in {cmdWILL, cmdWONT, cmdDO, cmdDONT}
         THEN Stripped(SubSeq(s, 4, Len(s)))
         ELSE IF s[2] = cmdSB THEN Stripped(AfterSE(SubSeq(s, 3, Len(s))))
         ELSE Stripped(SubSeq(s, 3, Len(s)))
    ELSE IF s[1] = CR /\ Len(s) >= 2 /\ s[2] \in {10, 0}
    THEN <<10>> \o Stripped(SubSeq(s, 3, Len(s)))
    ELSE <<s[1]>> \o Stripped(Tail(s))

\* C30: Read delivers exactly the input with the protocol traffic
\* stripped: IAC IAC is one 0xFF, option commands and subnegotiations are
\* nothing, each CR LF and each CR NUL pair is exactly one line feed, and
\* every other byte passes unchanged and in order.
C30_ReadStrips == conn.on => conn.got = Stripped(conn.fed)

\* the same for input in which no CR is followed by NUL
RECURSIVE HasCRNUL(_)
HasCRNUL(s) ==
    /\ Len(s) >= 2
    /\ \/ s[1] = CR /\ s[2] = 0
       \/ HasCRNUL(Tail(s))

C30_WithoutCRNUL ==
    (conn.on /\ ~HasCRNUL(conn.fed)) => conn.got = Stripped(conn.fed)

-----------------------------------------------------------------------------
(* The rlogin stream alone (SpecRl): RLoginStream.Read called until the    *)
(* bytes a client wrote are used up, before and after the Terminal is      *)
(* created.                                                                *)

MaxRlChunks == 3

\* Read called again and again on the bytes bs: a record of the stream and
\* the terminal; got collects what Read returned
RECURSIVE RlReadAll(_, _, _)
RlReadAll(c, t, bs) ==
    IF bs = <<>> THEN [c |-> c, t |-> t]
    ELSE LET r == RLoginByte(c, t, Head(bs))
         IN RlReadAll([r.c EXCEPT !.got = @ \o r.out], r.t, Tail(bs))

\* what a client writes in one call: text, stray 0xFF bytes, a window size
RlChunks ==
    { <<97>>, <<0>>, <<255>>, <<255, 97>>, <<255, 255>>, <<115>>,
      <<255, 255, 115, 97>>, WinBytes(120, 24), WinBytes(100, 255) }

RlFeed(ch) ==
    /\ conn.on /\ fuel > 0
    /\ LET r == RlReadAll([conn EXCEPT !.fed = @ \o ch], term, ch)
       IN conn' = r.c /\ term' = r.t
    /\ fuel' = fuel - 1
    /\ UNCHANGED <<BaseFS, BaseFSDirCache, overlay, cwd, heap, last, active,
                   tasks, pl>>

\* part_004:157-158: the Terminal is created with the cached size once the
\* password line was read (Read returns only in state 0)
RlAttach ==
    /\ conn.on /\ ~term.on /\ conn.state = 0
    /\ term' = NewTerminal(conn.initialWidth, conn.initialHeight)
    /\ UNCHANGED <<BaseFS, BaseFSDirCache, overlay, cwd, heap, last, fuel,
                   active, tasks, pl, conn>>

InitRl ==
    /\ BaseFS = InitBaseFS
    /\ BaseFSDirCache = InitDirCache
    /\ overlay = <<>>
    /\ cwd = pRoot
    /\ heap = InitHeap
    /\ last = NoCall
    /\ fuel = MaxRlChunks
    /\ active = {}
    /\ tasks = <<>>
    /\ term = Idle
    /\ pl = Idle
    /\ conn = NewConn("rlogin") @@ [fed |-> <<>>, got |-> <<>>]

NextRl ==
    \/ \E ch \in RlChunks : RlFeed(ch)
    \/ RlAttach

SpecRl == InitRl /\ [][NextRl]_vars

\* the start of the window-size control sequence
WinMagic == <<255, 255, 115, 115>>

\* s starts with a complete control sequence / with the start of one that
\* the input seen so far does not complete
StartsSeq(s) == Len(s) >= 12 /\ SubSeq(s, 1, 4) = WinMagic
StartsOpen(s) ==
    /\ Len(s) < 12
    /\ IF Len(s) <= 4 THEN IsPrefix(s, WinMagic) ELSE SubSeq(s, 1, 4) = WinMagic

\* the bytes of s that are known not to belong to a control sequence
RECURSIVE RlPlain(_)
RlPlain(s) ==
    IF s = <<>> \/ StartsOpen(s) THEN <<>>
    ELSE IF StartsSeq(s) THEN RlPlain(SubSeq(s, 13, Len(s)))
    ELSE <<s[1]>> \o RlPlain(Tail(s))

\* <<cols, rows>> of the last complete control sequence of s, or d
RECURSIVE RlWindow(_, _)
RlWindow(s, d) ==
    IF s = <<>> \/ StartsOpen(s) THEN d
    ELSE IF StartsSeq(s)
    THEN RlWindow(SubSeq(s, 13, Len(s)), <<s[7] * 256 + s[8], s[5] * 256 + s[6]>>)
    ELSE RlWindow(Tail(s), d)

\* the size the session has: of the Terminal, or cached for it
RlSize ==
    IF term.on THEN <<term.Width, term.Height>>
    ELSE <<conn.initialWidth, conn.initialHeight>>

C31_Delivered == conn.on => conn.got = RlPlain(conn.fed)

C31_Window == conn.on => RlSize = RlWindow(conn.fed, <<80, 24>>)

\* C31: every byte outside a complete window-size sequence (0xFF 0xFF 's'
\* 's' and 8 bytes) reaches the application unchanged and in order, a
\* stray 0xFF and the bytes after it included; a complete sequence
\* delivers nothing and sets the size to its (cols, rows).
C31_RLoginRead == C31_Delivered /\ C31_Window

\* the same for input whose every 0xFF belongs to a complete sequence
RECURSIVE NoStrayFF(_)
NoStrayFF(s) ==
    IF s = <<>> THEN TRUE
    ELSE IF StartsSeq(s) THEN NoStrayFF(SubSeq(s, 13, Len(s)))
    ELSE s[1] # 255 /\ NoStrayFF(Tail(s))

C31_WithoutStray == NoStrayFF(conn.fed) => C31_RLoginRead

-----------------------------------------------------------------------------
(* The raw-mode handoff around the foreground game, on SpecTerm            *)

\* the raw-mode writer is set exactly while the game is in the foreground
C32_HandleBrackets ==
    term.on => (term.RawModeWriter <=> term.main = "game")

\* a key read while the writer was set does not go to the line editor
C32_RawKeyStep ==
    (term.on /\ term.il = "key" /\ term.keyRaw) => term'.il # "send"

\* a key goes where the writer it finds at line 148-150 sends it, and to
\* one place only
C32_DispatchStep ==
    (term.on /\ term.il = "key" /\ term'.il # "key") =>
        IF term.RawModeWriter
        THEN term'.il = "rawwrite" /\ term'.forEditor = term.forEditor
        ELSE term'.il = "send" /\ term'.rawpend = term.rawpend
                /\ term'.game = term.game

\* a Write to the pipe of a game that has returned does not block for ever
C32_WriteReleased ==
    (term.on /\ term.il = "rawwrite" /\ ~term.game.running)
        ~> (term.on /\ term.il # "rawwrite")

\* C32: from the moment the foreground program installs the forwarding
\* handle until it returns, every key read from the stream goes to the
\* handle and none to the line editor; after it returns the handle is nil
\* and keys go to the line editor; no key is delivered to both; the input
\* task is not left blocked for ever on the handle of a program that ended.
C32_RawHandoff ==
    /\ [](C32_HandleBrackets)
    /\ [][C32_RawKeyStep]_vars
    /\ [][C32_DispatchStep]_vars
    /\ C32_WriteReleased

\* the claim without the keys that are read before the program returns and
\* looked at after
C32_AtDispatch ==
    /\ [](C32_HandleBrackets)
    /\ [][C32_DispatchStep]_vars
    /\ C32_WriteReleased

-----------------------------------------------------------------------------
(* The tasks that touch Terminal.Env and Terminal.History (SpecEnv): the   *)
(* main loop, the goroutines of a pipeline and the SSH request loop, whose *)
(* env map is the map NewTerminal stores in t.Env (part_003:164,           *)
(* part_000:71).  Every step is one access to the map or the slice, or a   *)
(* Lock of t.mu; an access is a record [obj, w, k, v, locked].             *)

MaxEnvLines == 2
MaxReqs == 1

EnvRead(k) == [obj |-> "Env", w |-> FALSE, k |-> k, v |-> "", locked |-> FALSE]
EnvLockedRead(k) == [EnvRead(k) EXCEPT !.locked = TRUE]
EnvWrite(k, v) == [obj |-> "Env", w |-> TRUE, k |-> k, v |-> v, locked |-> FALSE]
HistRead == [obj |-> "History", w |-> FALSE, k |-> "", v |-> "", locked |-> FALSE]

\* an argument of a command: <<"$", name>>, <<"=", name, value>> or <<word>>
\* part_002:27-38: the variable expansion reads t.Env for each $name
RECURSIVE ExpandReads(_)
ExpandReads(as) ==
    IF as = <<>> THEN <<>>
    ELSE (IF Head(as)[1] = "$" THEN <<EnvRead(Head(as)[2])>> ELSE <<>>)
            \o ExpandReads(Tail(as))

\* part_002:527-534: export with arguments stores each name=value
RECURSIVE ExportWrites(_)
ExportWrites(as) ==
    IF as = <<>> THEN <<>>
    ELSE (IF Head(as)[1] = "=" THEN <<EnvWrite(Head(as)[2], Head(as)[3])>> ELSE <<>>)
            \o ExportWrites(Tail(as))

\* the accesses of runCommand(args): the expansion, then export
\* (part_002:523-535), history (518-521), whoami (317-320, under t.mu)
CmdAccesses(args) ==
    ExpandReads(Tail(args)) \o
    CASE args[1] = <<"export">> ->
            IF Len(args) = 1 THEN <<EnvRead("")>> ELSE ExportWrites(Tail(args))
      [] args[1] = <<"history">> -> <<HistRead>>
      [] args[1] = <<"whoami">> -> <<EnvLockedRead("USER")>>
      [] OTHER -> <<>>

\* Prompt reads t.Env["USER"] under t.mu (part_000:96-102)
PromptAccesses == <<EnvLockedRead("USER")>>

\* the command lines of this model: sequences of commands joined by |
EnvLines ==
    { << <<<<"export">>, <<"=", "A", "1">>>>, <<<<"export">>, <<"=", "B", "2">>>> >>,
      << <<<<"echo">>, <<"$", "A">>>>, <<<<"export">>, <<"=", "A", "1">>>> >>,
      << <<<<"history">>>>, <<<<"history">>>> >>,
      << <<<<"whoami">>>>, <<<<"export">>>> >>,
      << <<<<"export">>, <<"=", "A", "1">>>> >>,
      << <<<<"echo">>, <<"$", "A">>>> >> }

StageIds == <<"s1", "s2">>

\* one step of a task with the accesses todo: Lock of t.mu before an
\* access made under it, else the access (and the Unlock after it)
EnvStep(who, todo, held) ==
    LET a == Head(todo) IN
    IF a.locked /\ ~held
    THEN [ok |-> term.mu = "", mu |-> who, todo |-> todo, held |-> TRUE,
          Env |-> term.Env]
    ELSE [ok |-> TRUE, mu |-> IF held THEN "" ELSE term.mu, todo |-> Tail(todo),
          held |-> FALSE,
          Env |-> IF a.obj = "Env" /\ a.w THEN [term.Env EXCEPT ![a.k] = a.v]
                  ELSE term.Env]

EnvCommon == <<BaseFS, BaseFSDirCache, overlay, cwd, heap, last, active, pl>>

\* the main loop in Prompt (part_000:96-102) or in the one command of a
\* line without | (part_000:430-433)
EnvMain ==
    /\ term.on /\ term.main \in {"prompt", "inline"}
    /\ IF term.todo = <<>>
       THEN term' = IF term.main = "prompt" THEN [term EXCEPT !.main = "recv"]
                    ELSE [term EXCEPT !.main = "prompt", !.todo = PromptAccesses]
       ELSE LET r == EnvStep("main", term.todo, term.held)
            IN r.ok /\ term' = [term EXCEPT !.mu = r.mu, !.todo = r.todo,
                                            !.held = r.held, !.Env = r.Env]
    /\ UNCHANGED <<conn, tasks, fuel, EnvCommon>>

\* Enter on the line l: the history grows (part_000:259-264), then
\* execPipeline starts a goroutine for each command of a pipeline
\* (part_000:436-473) or runs the one command itself
EnvEnter(l) ==
    /\ term.on /\ term.main = "recv" /\ fuel > 0
    /\ fuel' = fuel - 1
    /\ IF Len(l) = 1
       THEN /\ term' = [term EXCEPT !.History = @ + 1, !.main = "inline",
                                    !.todo = CmdAccesses(l[1])]
            /\ tasks' = tasks
       ELSE /\ term' = [term EXCEPT !.History = @ + 1, !.main = "wait"]
            /\ tasks' = [i \in DOMAIN l |->
                            [who |-> StageIds[i], todo |-> CmdAccesses(l[i]),
                             held |-> FALSE]]
    /\ UNCHANGED <<conn, EnvCommon>>

\* the goroutine of stage i inside runCommand
EnvStage(i) ==
    /\ term.on /\ i \in DOMAIN tasks /\ tasks[i].todo # <<>>
    /\ LET r == EnvStep(tasks[i].who, tasks[i].todo, tasks[i].held)
       IN /\ r.ok
          /\ term' = [term EXCEPT !.mu = r.mu, !.Env = r.Env]
          /\ tasks' = [tasks EXCEPT ![i].todo = r.todo, ![i].held = r.held]
    /\ UNCHANGED <<conn, fuel, EnvCommon>>

\* wg.Wait returns (part_000:475)
EnvWait ==
    /\ term.on /\ term.main = "wait"
    /\ \A i \in DOMAIN tasks : tasks[i].todo = <<>>
    /\ tasks' = <<>>
    /\ term' = [term EXCEPT !.main = "prompt", !.todo = PromptAccesses]
    /\ UNCHANGED <<conn, fuel, EnvCommon>>

\* the SSH request loop takes an env request off its channel
\* (part_003:103, 133-137) ...
EnvRequest(k, v) ==
    /\ term.on /\ conn.ssh /\ conn.left > 0 /\ conn.todo = <<>>
    /\ conn' = [conn EXCEPT !.left = @ - 1, !.todo = <<EnvWrite(k, v)>>]
    /\ UNCHANGED <<term, tasks, fuel, EnvCommon>>

\* ... and stores it: env[k] = v (part_003:138)
EnvStore ==
    /\ term.on /\ conn.ssh /\ conn.todo # <<>>
    /\ LET r == EnvStep("ssh", conn.todo, FALSE)
       IN /\ term' = [term EXCEPT !.Env = r.Env]
          /\ conn' = [conn EXCEPT !.todo = r.todo]
    /\ UNCHANGED <<tasks, fuel, EnvCommon>>

\* a session after NewTerminal and the first line of Run, over SSH (with
\* the request loop) or over another listener
InitEnv ==
    /\ BaseFS = InitBaseFS
    /\ BaseFSDirCache = InitDirCache
    /\ overlay = <<>>
    /\ cwd = pRoot
    /\ heap = InitHeap
    /\ last = NoCall
    /\ fuel = MaxEnvLines
    /\ active = {}
    /\ tasks = <<>>
    /\ pl = Idle
    /\ term = [on |-> TRUE, Env |-> [k \in {"A", "B", "USER", ""} |->
                                        IF k = "USER" THEN "root" ELSE ""],
               History |-> 0, mu |-> "", main |-> "prompt",
               todo |-> PromptAccesses, held |-> FALSE]
    /\ \E s \in BOOLEAN : conn = [on |-> TRUE, ssh |-> s, left |-> MaxReqs, todo |-> <<>>]

NextEnv ==
    \/ EnvMain
    \/ \E l \in EnvLines : EnvEnter(l)
    \/ \E i \in 1..2 : EnvStage(i)
    \/ EnvWait
    \/ \E k \in {"A", "USER"} : EnvRequest(k, "2")
    \/ EnvStore

SpecEnv == InitEnv /\ [][NextEnv]_vars

\* the access each task is about to make: a task before its Lock or
\* blocked in a receive or in wg.Wait makes none; the main loop at the key
\* channel is about to append to the history
EnvPending ==
    (IF /\ term.main \in {"prompt", "inline"}
        /\ term.todo # <<>>
        /\ Head(term.todo).locked => term.held
     THEN {[who |-> "main", a |-> Head(term.todo)]} ELSE {})
    \cup (IF term.main = "recv"
          THEN {[who |-> "main", a |-> [HistRead EXCEPT !.w = TRUE]]} ELSE {})
    \cup { [who |-> tasks[i].who, a |-> Head(tasks[i].todo)] :
             i \in {j \in DOMAIN tasks : /\ tasks[j].todo # <<>>
                                         /\ Head(tasks[j].todo).locked => tasks[j].held} }
    \cup (IF conn.todo # <<>> THEN {[who |-> "ssh", a |-> Head(conn.todo)]} ELSE {})

\* two tasks are about to touch obj, one of them writing, not both under
\* the mutex
EnvRace(obj) ==
    \E p, q \in EnvPending :
        /\ p.who # q.who
        /\ p.a.obj = obj /\ q.a.obj = obj
        /\ p.a.w \/ q.a.w
        /\ ~(p.a.locked /\ q.a.locked)

C33_HistoryGuarded == term.on => ~EnvRace("History")

\* C33: no two tasks (the goroutines of a pipeline such as
\* `export A=1 | export B=2`, the SSH request loop storing an env request,
\* the main loop) read or write the Env map or the history at the same
\* time without holding the terminal mutex.
C33_EnvGuarded == term.on => (~EnvRace("Env") /\ ~EnvRace("History"))

\* the same in a session without the SSH request loop in which no
\* pipeline runs export with arguments
C33_NoWriterGuarded ==
    (term.on /\ ~conn.ssh
        /\ \A i \in DOMAIN tasks : \A j \in DOMAIN tasks[i].todo : ~tasks[i].todo[j].w)
      => ~EnvRace("Env")

-----------------------------------------------------------------------------
(* wget and curl (SpecGet): runCommand on a line `wget url` or `curl url`  *)
(* for every url of up to MaxUrlLen characters of s : / h                  *)

MaxUrlLen == 5
MaxGets == 2

chSlash == 47

\* strings.Split(url, "/") from index i on
RECURSIVE SplitSlash(_, _, _, _)
SplitSlash(s, i, cur, acc) ==
    IF i > Len(s) THEN Append(acc, cur)
    ELSE IF s[i] = chSlash THEN SplitSlash(s, i + 1, <<>>, Append(acc, cur))
    ELSE SplitSlash(s, i + 1, Append(cur, s[i]), acc)

\* part_002:346-361: the wget and curl branch of runCommand for args;
\* ref is the text printed after `Resolving ` or `Could not resolve
\* host: `, panic an index out of range
GetCommand(args) ==
    IF Len(args) > 1
    THEN LET url == args[Len(args)]
             parts == SplitSlash(url, 1, <<>>, <<>>)
         IN IF args[1] = WordWget
            THEN IF Len(parts) < 3
                 THEN [panic |-> TRUE, code |-> 0, ref |-> <<>>, usage |-> FALSE]
                 ELSE [panic |-> FALSE, code |-> 1, ref |-> parts[3], usage |-> FALSE]
            ELSE [panic |-> FALSE, code |-> 1, ref |-> url, usage |-> FALSE]
    ELSE [panic |-> FALSE, code |-> 1, ref |-> <<>>, usage |-> TRUE]

WordCurl == <<99, 117, 114, 108>>

RECURSIVE SeqsUpTo(_, _)
SeqsUpTo(S, n) ==
    IF n = 0 THEN {<<>>}
    ELSE LET R == SeqsUpTo(S, n - 1)
         IN R \cup {Append(r, x) : r \in {q \in R : Len(q) = n - 1}, x \in S}

Urls == SeqsUpTo({115, 58, chSlash, 104}, MaxUrlLen) \ {<<>>}

\* part_000:374 and 430-433: execPipeline resets the exit code and runs
\* the command; a panic ends the process
GetRun(args) ==
    /\ term.on /\ ~term.panic /\ fuel > 0
    /\ LET r == GetCommand(args)
       IN term' = [on |-> TRUE, args |-> args, panic |-> r.panic,
                   lastExitCode |-> r.code, ref |-> r.ref, usage |-> r.usage,
                   n |-> term.n + 1]
    /\ fuel' = fuel - 1
    /\ UNCHANGED <<BaseFS, BaseFSDirCache, overlay, cwd, heap, last, active,
                   tasks, pl, conn>>

InitGet ==
    /\ BaseFS = InitBaseFS
    /\ BaseFSDirCache = InitDirCache
    /\ overlay = <<>>
    /\ cwd = pRoot
    /\ heap = InitHeap
    /\ last = NoCall
    /\ fuel = MaxGets
    /\ active = {}
    /\ tasks = <<>>
    /\ pl = Idle
    /\ conn = Idle
    /\ term = [on |-> TRUE, args |-> <<>>, panic |-> FALSE, lastExitCode |-> 0,
               ref |-> <<>>, usage |-> FALSE, n |-> 0]

NextGet ==
    \E cmd \in {WordWget, WordCurl} :
        \/ GetRun(<<cmd>>)
        \/ \E u \in Urls : GetRun(<<cmd, u>>)

SpecGet == InitGet /\ [][NextGet]_vars

\* the host of a URL: what follows `scheme://` if there is one, up to the
\* next /
HostOf(url) ==
    LET ix == {i \in 1..(Len(url) - 2) :
                 url[i] = 58 /\ url[i + 1] = chSlash /\ url[i + 2] = chSlash}
        from == IF ix = {} THEN 1 ELSE (CHOOSE i \in ix : \A j \in ix : i <= j) + 3
        rest == SubSeq(url, from, Len(url))
    IN SplitSlash(rest, 1, <<>>, <<>>)[1]

\* a occurs in b
Within(a, b) ==
    \E i \in 1..(Len(b) - Len(a) + 1) : SubSeq(b, i, i + Len(a) - 1) = a

GetGiven == term.on /\ term.n >= 1 /\ Len(term.args) > 1

C34_NoPanic == GetGiven => ~term.panic

C34_ExitOne == (GetGiven /\ ~term.panic) => term.lastExitCode = 1

C34_RefersHost ==
    (GetGiven /\ ~term.panic) => Within(HostOf(term.args[2]), term.ref)

\* C34: for every argument given to wget or curl, with or without a scheme
\* and with any number of /, the command prints its failure output that
\* refers to the host of the URL and ends with exit code 1; none makes the
\* command panic.
C34_WgetCurl == C34_NoPanic /\ C34_ExitOne /\ C34_RefersHost

\* the same for curl alone
C34_Curl == (GetGiven /\ term.args[1] = WordCurl) => C34_WgetCurl

\* wget given scheme://host/...
C34_WgetWithScheme ==
    (GetGiven /\ term.args[1] = WordWget
        /\ Len(term.args[2]) >= 4 /\ SubSeq(term.args[2], 1, 4) = <<115, 58, chSlash, chSlash>>)
      => C34_WgetCurl

-----------------------------------------------------------------------------
(* The SSH request loop of one channel (SpecReq), part_003:103-183, on     *)
(* requests whose payload is any short byte string or a well-formed one    *)

MaxSshReqs == 2
MaxPayload == 5
MaxSlack == 1

\* binary.BigEndian.Uint32(p[0:4]), for a value below 2^31
Uint32(p) == ((p[1] * 256 + p[2]) * 256 + p[3]) * 256 + p[4]

\* k + Uint32(p) <= n, as the program computes it: in int for a test
\* of len(p) (64 bits, no wrap), in uint32 for the bound 4+l of a slice
\* expression, where a value of 2^31 or more either wraps around to less
\* than 4 or is past every capacity
Fits(p, n, k) == p[1] < 128 /\ Uint32(p) <= n - k

\* p[lo:hi] of a slice with capacity c, lo and hi counted from 0: the
\* bytes past len(p) are whatever the buffer holds (0 here)
GoSlice(p, lo, hi) ==
    [i \in 1..(hi - lo) |-> IF lo + i <= Len(p) THEN p[lo + i] ELSE 0]

WordSftp == <<115, 102, 116, 112>>

\* part_003:108-183: one turn of `for r := range in` on a request of type
\* ty with payload p of capacity c
SshRequest(s, ty, p, c) ==
    LET l == Uint32(p)
        same == [s EXCEPT !.reply = "none"]
    IN CASE ty = "pty-req" ->
              IF Len(p) > 4 /\ Fits(p, Len(p), 4)
              THEN LET rest == SubSeq(p, 5 + l, Len(p))
                   IN [same EXCEPT !.reply = "true", !.TERM = SubSeq(p, 5, 4 + l),
                                   !.cols = IF Len(rest) >= 8
                                            THEN Uint32(SubSeq(rest, 1, 4)) ELSE @,
                                   !.rows = IF Len(rest) >= 8
                                            THEN Uint32(SubSeq(rest, 5, 8)) ELSE @]
              ELSE [same EXCEPT !.reply = "true"]
         [] ty = "window-change" ->
              IF Len(p) >= 8
              THEN [same EXCEPT !.cols = Uint32(SubSeq(p, 1, 4)),
                                !.rows = Uint32(SubSeq(p, 5, 8))]
              ELSE same
         [] ty = "env" ->
              IF Len(p) > 4 /\ Fits(p, Len(p), 8)
              THEN [same EXCEPT !.reply = "true",
                                !.env = <<SubSeq(p, 5, 4 + l), SubSeq(p, 9 + l, Len(p))>>]
              ELSE [same EXCEPT !.reply = "true"]
         [] ty = "exec" ->
              IF Len(p) > 4
              THEN IF ~Fits(p, c, 4)
                   THEN [same EXCEPT !.panic = TRUE]
                   ELSE [same EXCEPT !.reply = "true", !.returned = TRUE,
                                     !.cmd = GoSlice(p, 4, 4 + l)]
              ELSE [same EXCEPT !.reply = "false"]
         [] ty = "subsystem" ->
              IF Len(p) < 4 THEN [same EXCEPT !.panic = TRUE]
              ELSE IF SubSeq(p, 5, Len(p)) = WordSftp
              THEN [same EXCEPT !.reply = "true", !.returned = TRUE]
              ELSE [same EXCEPT !.reply = "false"]
         [] OTHER -> [same EXCEPT !.reply = "false"]

ReqTypes == {"pty-req", "window-change", "env", "exec", "subsystem", "other"}

\* a string with its length in front
Str(s) == <<0, 0, 0, Len(s)>> \o s

Payloads ==
    SeqsUpTo({0, 2, 255}, MaxPayload)
    \cup { Str(<<120>>) \o <<0, 0, 0, 100, 0, 0, 0, 30>>,      \* pty-req x 100x30
           <<0, 0, 0, 90, 0, 0, 0, 25>>,                        \* window-change
           Str(<<65>>) \o Str(<<49>>),                          \* env A=1
           Str(LineLs),                                         \* exec ls
           Str(WordSftp),                                       \* subsystem sftp
           <<0, 0, 0, 9>> \o WordSftp,
           <<0, 0, 0, 3>> \o LineLs }

ReqTake(ty, p, c) ==
    /\ conn.on /\ ~conn.panic /\ ~conn.returned /\ fuel > 0
    /\ conn' = [SshRequest(conn, ty, p, c) EXCEPT !.ty = ty, !.p = p, !.n = @ + 1]
    /\ fuel' = fuel - 1
    /\ UNCHANGED <<BaseFS, BaseFSDirCache, overlay, cwd, heap, last, active,
                   tasks, pl, term>>

InitReq ==
    /\ BaseFS = InitBaseFS
    /\ BaseFSDirCache = InitDirCache
    /\ overlay = <<>>
    /\ cwd = pRoot
    /\ heap = InitHeap
    /\ last = NoCall
    /\ fuel = MaxSshReqs
    /\ active = {}
    /\ tasks = <<>>
    /\ pl = Idle
    /\ term = Idle
    /\ conn = [on |-> TRUE, cols |-> 80, rows |-> 24, TERM |-> <<>>,
               env |-> <<>>, cmd |-> <<>>, panic |-> FALSE, returned |-> FALSE,
               reply |-> "none", ty |-> "", p |-> <<>>, n |-> 0]

NextReq ==
    \E ty \in ReqTypes, p \in Payloads :
        \E c \in Len(p)..(Len(p) + MaxSlack) : ReqTake(ty, p, c)

SpecReq == InitReq /\ [][NextReq]_vars

\* the last request was one of the five kinds with a payload shorter than
\* 4 bytes or than the length its first four bytes declare
Malformed ==
    /\ conn.on /\ conn.n >= 1
    /\ conn.ty \in ReqTypes \ {"other"}
    /\ \/ Len(conn.p) < 4
       \/ ~Fits(conn.p, Len(conn.p), 4)

C35_NoPanic == Malformed => ~conn.panic

C35_Refused == (Malformed /\ ~conn.panic) => conn.reply \in {"false", "none"}

C35_KeepsServing == (Malformed /\ ~conn.panic) => ~conn.returned

\* C35: for every exec, subsystem, env, pty-req or window-change request
\* whose payload is shorter than 4 bytes or shorter than the length its
\* prefix declares, the request loop does not panic, replies false (or
\* ignores the request) and keeps serving the channel.
C35_MalformedRequests == C35_NoPanic /\ C35_Refused /\ C35_KeepsServing

\* pty-req, env and window-change: no panic, no value taken from a
\* malformed payload, and the loop goes on
C35_SizeAndEnvSafe ==
    (Malformed /\ conn.ty \in {"pty-req", "env", "window-change"}) =>
        /\ ~conn.panic /\ ~conn.returned
        /\ conn.ty \in {"pty-req", "env"} => conn.reply = "true"

-----------------------------------------------------------------------------
(* A WriteAt that fails, on Spec *)

\* the path of the failed WriteAt resolves as before the call: overlay
\* entry, BaseFS entry, tombstone or nothing
C36_SameKind ==
    (last.op = "WriteAt" /\ last.err = "quota") => Kind(overlay, last.p) = last.pre

\* the bytes the path holds are those it held before the call
C36_SameContent ==
    (last.op = "WriteAt" /\ last.err = "quota")
        => ContentOf(overlay, heap, last.p) = last.was

\* C36: when WriteAt returns the quota error for a path, no overlay entry
\* has been created, materialised from BaseFS or modified, so GetEntry and
\* ListDir return what they returned before the call.
C36_FailedWriteAt == C36_SameKind /\ C36_SameContent

\* the same for a path that had an overlay entry before the call
C36_FailedOnOverlay ==
    (last.op = "WriteAt" /\ last.err = "quota" /\ last.pre = "overlay")
        => C36_FailedWriteAt

-----------------------------------------------------------------------------
(* The locks of SessionFS (SpecLock): each call as the sequence of Lock,   *)
(* RLock and Unlock it makes on SessionFS.mu and on the mu of the entries  *)
(* it finds, for goroutines on the same or on different paths.  pl.ov maps *)
(* a key of the overlay to the entry stored there (0: nil), entries are    *)
(* numbered as they are made.  sync.RWMutex: a Lock first keeps later      *)
(* RLocks out, then waits for the readers to leave.                        *)

MaxLkTasks == 2

LkI(k, m) == [k |-> k, m |-> m]
LkDo(k) == [k |-> k, m |-> <<>>]

\* GetEntry (fs.go:67-88)
LkGetEntry == <<LkI("RLock", FsMu), LkDo("look"), LkI("RUnlock", FsMu)>>

\* the calls of a goroutine, up to the first point where what it does
\* next depends on the map
LkProgram(op) ==
    CASE op \in {"Write", "Mkdir", "Remove"} ->          \* fs.go:134, 179, 193
            <<LkI("Lock", FsMu), LkDo("body"), LkI("Unlock", FsMu)>>
      [] op = "WriteAt" ->                               \* srv_sftp.go:97-136
            <<LkI("Lock", FsMu), LkDo("body"), LkI("Unlock", FsMu), LkDo("entry")>>
      [] op = "GetEntry" -> LkGetEntry
      [] OTHER -> Append(LkGetEntry, LkDo("found"))      \* fs.go:93, 201, 223, 251

\* a wrong second phase of WriteAt: the map is locked again under the
\* entry lock
LkEntryPhase_locksMap(e) ==
    <<LkI("Lock", EntMu(e)), LkI("Lock", FsMu), LkI("Unlock", FsMu),
      LkI("Unlock", EntMu(e))>>

\* srv_sftp.go:135-136: phase two of WriteAt runs under the lock of the
\* entry alone
LkEntryPhase(e) == <<LkI("Lock", EntMu(e)), LkI("Unlock", EntMu(e))>>

LkOps == {"Write", "Mkdir", "Remove", "Rename", "Chmod", "Chown", "GetEntry",
          "ListDir", "Fileread", "WriteAt"}

LkPaths == {pHosts, pX}

NewLkTask(op, p, q) ==
    [op |-> op, p |-> p, q |-> q, todo |-> LkProgram(op), e |-> NoEnt,
     holds |-> {}, pend |-> <<>>, gone |-> FALSE]

\* what GetEntry finds at p
LkLookup(p) ==
    IF p \in DOMAIN pl.ov
    THEN (IF pl.ov[p] = 0 THEN NoEnt ELSE EntOv(pl.ov[p]))
    ELSE IF p \in DOMAIN BaseFS THEN EntBase(p) ELSE NoEnt

LkInOverlay(p) == p \in DOMAIN pl.ov /\ pl.ov[p] # 0

\* the mutex m is held by another task (exclusively, when x) or another
\* task's Lock of m is waiting
LkHeld(t, m, x) ==
    \E u \in DOMAIN tasks \ {t} : \E l \in tasks[u].holds : l.m = m /\ (x => l.x)
LkPending(t, m) == \E u \in DOMAIN tasks \ {t} : tasks[u].pend = m

\* task t can make its next step
LkCan(t) ==
    /\ tasks[t].todo # <<>>
    /\ LET i == Head(tasks[t].todo) IN
       CASE i.k = "RLock" -> ~LkHeld(t, i.m, TRUE) /\ ~LkPending(t, i.m)
         [] i.k = "Lock" ->
              IF tasks[t].pend = i.m THEN ~LkHeld(t, i.m, FALSE)
              ELSE ~LkHeld(t, i.m, TRUE) /\ ~LkPending(t, i.m)
         [] OTHER -> TRUE

\* the step of task t: a lock operation, or the code between two of them
LkStep(t) ==
    /\ t \in DOMAIN tasks /\ LkCan(t)
    /\ LET k == tasks[t]
           i == Head(k.todo)
           rest == Tail(k.todo)
           fresh == [pl EXCEPT !.n = @ + 1]
           put(p, v) == [fresh EXCEPT !.ov = Put(@, p, v)]
           lockE(n) == <<LkI("Lock", EntMu(EntOv(n))), LkI("Unlock", EntMu(EntOv(n)))>>
       IN CASE i.k = "RLock" ->
                 /\ tasks' = [tasks EXCEPT ![t].holds = @ \cup {[m |-> i.m, x |-> FALSE]},
                                           ![t].todo = rest]
                 /\ pl' = pl
            [] i.k = "Lock" ->
                 /\ tasks' = IF k.pend = i.m
                             THEN [tasks EXCEPT ![t].holds = @ \cup {[m |-> i.m, x |-> TRUE]},
                                                ![t].pend = <<>>, ![t].todo = rest]
                             ELSE [tasks EXCEPT ![t].pend = i.m]
                 /\ pl' = pl
            [] i.k \in {"Unlock", "RUnlock"} ->
                 /\ tasks' = [tasks EXCEPT ![t].holds = {l \in @ : l.m # i.m},
                                           ![t].todo = rest]
                 /\ pl' = pl
            [] i.k = "look" ->
                 /\ tasks' = [tasks EXCEPT ![t].e = LkLookup(k.p), ![t].todo = rest]
                 /\ pl' = pl
            [] i.k = "found" ->
                 \* not found: return; Rename, Chmod, Chown lock the map
                 \* (fs.go:215, 229, 256), ListDir reads it under RLock
                 \* (fs.go:108), Fileread reads the entry (srv_sftp.go:28)
                 /\ tasks' = [tasks EXCEPT ![t].todo =
                        IF k.e = NoEnt THEN <<>>
                        ELSE IF k.op = "ListDir"
                        THEN <<LkI("RLock", FsMu), LkI("RUnlock", FsMu)>>
                        ELSE IF k.op = "Fileread"
                        THEN <<LkI("RLock", EntMu(k.e)), LkI("RUnlock", EntMu(k.e))>>
                        ELSE <<LkI("Lock", FsMu), LkDo("body"), LkI("Unlock", FsMu)>>]
                 /\ pl' = pl
            [] i.k = "entry" ->
                 /\ tasks' = [tasks EXCEPT ![t].todo = LkEntryPhase(k.e)]
                 /\ pl' = pl
            [] i.k = "body" ->
                 CASE k.op \in {"Write", "Chmod", "Chown"} ->
                        \* fs.go:142-149, 233-237, 259-268: the entry of
                        \* the overlay is locked, or a new one is stored
                        \* (for Chmod and Chown a copy of the entry that
                        \* GetEntry returned, fs.go:240-245, 270-279).
                        \* gone records that the path found by GetEntry
                        \* is not there any more at the locked update.
                        IF LkInOverlay(k.p)
                        THEN /\ tasks' = [tasks EXCEPT ![t].todo = lockE(pl.ov[k.p]) \o rest]
                             /\ pl' = pl
                        ELSE /\ tasks' = [tasks EXCEPT ![t].todo = rest,
                                    ![t].gone = (k.op # "Write" /\ LkLookup(k.p) = NoEnt)]
                             /\ pl' = put(k.p, pl.n + 1)
                  [] k.op = "Mkdir" ->
                        /\ tasks' = [tasks EXCEPT ![t].todo = rest]
                        /\ pl' = put(k.p, pl.n + 1)
                  [] k.op = "Remove" ->
                        /\ tasks' = [tasks EXCEPT ![t].todo = rest]
                        /\ pl' = [pl EXCEPT !.ov = Put(@, k.p, 0)]
                  [] k.op = "Rename" ->
                        /\ tasks' = [tasks EXCEPT ![t].todo = rest]
                        /\ pl' = [fresh EXCEPT !.ov = Put(Put(@, k.q, pl.n + 1), k.p, 0)]
                  [] k.op = "WriteAt" ->
                        IF LkInOverlay(k.p)
                        THEN /\ tasks' = [tasks EXCEPT ![t].todo = rest,
                                                       ![t].e = EntOv(pl.ov[k.p])]
                             /\ pl' = pl
                        ELSE /\ tasks' = [tasks EXCEPT ![t].todo = rest,
                                                       ![t].e = EntOv(pl.n + 1)]
                             /\ pl' = put(k.p, pl.n + 1)
    /\ UNCHANGED <<BaseFS, BaseFSDirCache, overlay, cwd, heap, last, fuel, active,
                   term, conn>>

\* `go` of a call
LkGo(op, p, q) ==
    /\ pl.on /\ Len(tasks) < MaxLkTasks
    /\ tasks' = Append(tasks, NewLkTask(op, p, q))
    /\ UNCHANGED <<BaseFS, BaseFSDirCache, overlay, cwd, heap, last, fuel, active,
                   term, conn, pl>>

\* /tmp/x is in the overlay after an earlier Write, or not yet
InitLock ==
    /\ BaseFS = InitBaseFS
    /\ BaseFSDirCache = InitDirCache
    /\ overlay = <<>>
    /\ cwd = pRoot
    /\ heap = InitHeap
    /\ last = NoCall
    /\ fuel = 0
    /\ active = {}
    /\ tasks = <<>>
    /\ term = Idle
    /\ conn = Idle
    /\ \E ov \in {<<>>, pX :> 1} :
          pl = [on |-> TRUE, ov |-> ov, n |-> IF ov = <<>> THEN 0 ELSE 1]

LkSteps == \E t \in 1..MaxLkTasks : LkStep(t)

NextLock ==
    \/ \E op \in LkOps, p \in LkPaths : LkGo(op, p, pY)
    \/ LkSteps

\* a goroutine that can take a step eventually takes one
SpecLock == InitLock /\ [][NextLock]_vars /\ WF_vars(LkSteps)

\* some call has not returned and no goroutine can take a step
LkStuck ==
    /\ \E t \in DOMAIN tasks : tasks[t].todo # <<>>
    /\ \A t \in DOMAIN tasks : ~LkCan(t)

\* a goroutine takes the entry lock only after it gave up the map lock or
\* while it holds the map lock exclusively, and never the map lock while
\* it holds an entry lock
C37_LockOrder ==
    pl.on => \A t \in DOMAIN tasks : \A l \in tasks[t].holds :
        (l.m # FsMu /\ tasks[t].todo # <<>>)
            => Head(tasks[t].todo).m # FsMu \/ Head(tasks[t].todo).k \in {"Unlock", "RUnlock"}

C37_NotStuck == pl.on => ~LkStuck

C37_AllReturn ==
    \A t \in 1..MaxLkTasks :
        (pl.on /\ Len(tasks) >= t) ~> (pl.on /\ Len(tasks) >= t /\ tasks[t].todo = <<>>)

\* C37: for every interleaving of concurrent Write, Mkdir, Remove, Rename,
\* Chmod, Chown, GetEntry, ListDir, Fileread and WriteAt on the same or on
\* different paths, the overlay lock and the entry locks are taken in an
\* order that lets every call eventually return.
C37_NoDeadlock == [](C37_NotStuck) /\ [](C37_LockOrder) /\ C37_AllReturn

\* a Write waits for the entry lock, holding the map lock, while a WriteAt
\* holds that entry lock; both have started and neither has returned
C37_Witness ==
    /\ pl.on /\ Len(tasks) = 2
    /\ \E t, u \in DOMAIN tasks :
          /\ tasks[t].op = "Write" /\ tasks[u].op = "WriteAt"
          /\ [m |-> FsMu, x |-> TRUE] \in tasks[t].holds
          /\ tasks[t].todo # <<>> /\ Head(tasks[t].todo).k = "Lock"
          /\ Head(tasks[t].todo).m # FsMu
          /\ [m |-> Head(tasks[t].todo).m, x |-> TRUE] \in tasks[u].holds


\* all calls have returned, among them Remove(p) and the Chmod or Chown t
\* of the same path
LkRemoved(t) ==
    /\ pl.on /\ t \in DOMAIN tasks
    /\ tasks[t].op \in {"Chmod", "Chown"}
    /\ \A u \in DOMAIN tasks : tasks[u].todo = <<>>
    /\ \E u \in DOMAIN tasks : tasks[u].op = "Remove" /\ tasks[u].p = tasks[t].p
    /\ \A u \in DOMAIN tasks \ {t} : tasks[u].op = "Remove"

\* C38: when Remove(p) completes between the GetEntry lookup and the locked
\* update of a concurrent Chmod(p) or Chown(p), p is not found after both
\* calls have returned.
C38_NoResurrection ==
    \A t \in 1..MaxLkTasks :
        (LkRemoved(t) /\ tasks[t].gone) => LkLookup(tasks[t].p) = NoEnt

\* the same when the Remove completes before the lookup or after the update
C38_InOrder ==
    \A t \in 1..MaxLkTasks :
        (LkRemoved(t) /\ ~tasks[t].gone) => LkLookup(tasks[t].p) = NoEnt


-----------------------------------------------------------------------------
(* The line editor (SpecEd): Terminal.Run on the keys of one line and      *)
(* handleAutoComplete.  t.buffer holds runes and t.cursor is an index into *)
(* it; the line and the names of the files are strings, that is bytes.     *)
(* term.files is what ListDir returns for the directories that completion  *)
(* looks into; term.panic is the run-time error that ended the goroutine.  *)

MaxEdKeys == 5

EdVars == <<BaseFS, BaseFSDirCache, overlay, cwd, heap, last, active, tasks, pl, conn>>

\* utf8.EncodeRune, for runes below 65536
EncodeRune(r) ==
    IF r < 128 THEN <<r>>
    ELSE IF r < 2048 THEN <<192 + (r \div 64), 128 + (r % 64)>>
    ELSE <<224 + (r \div 4096), 128 + ((r \div 64) % 64), 128 + (r % 64)>>

\* string(runes)
RECURSIVE RuneBytes(_)
RuneBytes(rs) == IF rs = <<>> THEN <<>> ELSE EncodeRune(Head(rs)) \o RuneBytes(Tail(rs))

\* []rune(s), for sequences of one and two bytes; a byte that starts no
\* sequence decodes to U+FFFD
RECURSIVE DecodeRunes(_)
DecodeRunes(s) ==
    IF s = <<>> THEN <<>>
    ELSE IF s[1] < 128 THEN <<s[1]>> \o DecodeRunes(Tail(s))
    ELSE IF /\ s[1] >= 194 /\ s[1] < 224 /\ Len(s) >= 2
            /\ s[2] >= 128 /\ s[2] < 192
    THEN <<(s[1] - 192) * 64 + (s[2] - 128)>> \o DecodeRunes(Tail(Tail(s)))
    ELSE <<RuneError>> \o DecodeRunes(Tail(s))

\* the elements of a path joined by slashes
RECURSIVE JoinSlash(_)
JoinSlash(cs) ==
    IF cs = <<>> THEN <<>>
    ELSE IF Len(cs) = 1 THEN cs[1]
    ELSE cs[1] \o <<chSlash>> \o JoinSlash(Tail(cs))

\* path.Clean on the elements todo of a path, done the elements kept
RECURSIVE EdCleanFrom(_, _, _)
EdCleanFrom(todo, done, rooted) ==
    IF todo = <<>> THEN done
    ELSE LET c == Head(todo) IN
         IF c = <<>> \/ c = <<46>> THEN EdCleanFrom(Tail(todo), done, rooted)
         ELSE IF c = <<46, 46>>
         THEN (IF done # <<>> /\ done[Len(done)] # <<46, 46>>
               THEN EdCleanFrom(Tail(todo), SubSeq(done, 1, Len(done) - 1), rooted)
               ELSE IF rooted THEN EdCleanFrom(Tail(todo), done, rooted)
               ELSE EdCleanFrom(Tail(todo), Append(done, c), rooted))
         ELSE EdCleanFrom(Tail(todo), Append(done, c), rooted)

\* path.Clean
EdClean(p) ==
    LET rooted == p # <<>> /\ p[1] = chSlash
        kept == JoinSlash(EdCleanFrom(SplitSlash(p, 1, <<>>, <<>>), <<>>, rooted))
    IN IF rooted THEN <<chSlash>> \o kept
       ELSE IF kept = <<>> THEN <<46>> ELSE kept

\* path.Join of two elements
PathJoin(a, b) ==
    IF a = <<>> /\ b = <<>> THEN <<>>
    ELSE IF a = <<>> THEN EdClean(b)
    ELSE IF b = <<>> THEN EdClean(a)
    ELSE EdClean(a \o <<chSlash>> \o b)

\* path.Split: the part up to the last slash, and the rest
PathSplit(w) ==
    LET sl == {i \in DOMAIN w : w[i] = chSlash}
        i == IF sl = {} THEN 0 ELSE CHOOSE k \in sl : \A j \in sl : j <= k
    IN [dir |-> SubSeq(w, 1, i), file |-> SubSeq(w, i + 1, Len(w))]

EdRoot == <<47, 114, 111, 111, 116>>
EdBinDir == <<47, 98, 105, 110>>
EdUsrBin == <<47, 117, 115, 114, 47, 98, 105, 110>>

\* fs.go:50-64, the working directory being /root
EdAbs(p) ==
    IF p = <<>> THEN EdRoot
    ELSE IF p = <<126>> THEN EdRoot
    ELSE IF Len(p) >= 2 /\ SubSeq(p, 1, 2) = <<126, chSlash>>
    THEN PathJoin(EdRoot, SubSeq(p, 3, Len(p)))
    ELSE IF p[1] # chSlash THEN EdClean(PathJoin(EdRoot, p))
    ELSE EdClean(p)

EdFile(name) == [name |-> name, isDir |-> FALSE]
EdDir(name) == [name |-> name, isDir |-> TRUE]

\* fs_data.go:142-152: of the commands in /bin and /usr/bin, those that
\* begin with a letter of EdLines, and ls
EdCmds == {EdFile(<<103, 114, 101, 112>>), EdFile(<<102, 114, 101, 101>>),
           EdFile(<<102, 105, 110, 100>>), EdFile(<<108, 115>>)}

\* fs_data.go:46-48, 119: the directories of / that completion is asked
\* for, and /root
EdBaseDirs ==
    (<<chSlash>> :> {EdDir(<<98, 105, 110>>), EdDir(<<111, 112, 116>>),
                     EdDir(<<114, 111, 111, 116>>), EdDir(<<117, 115, 114>>)})
    @@ (EdBinDir :> EdCmds) @@ (EdUsrBin :> EdCmds)
    @@ (EdRoot :> {EdFile(<<46, 98, 97, 115, 104, 114, 99>>)})

\* what the session has made in /root before: nothing, the file foo, the
\* file f<e-acute>, or the directory fo
EdMade == {{}, {EdFile(<<102, 111, 111>>)}, {EdFile(RuneBytes(<<102, 233>>))},
           {EdDir(<<102, 111>>)}}

EdFiles(made) ==
    [d \in DOMAIN EdBaseDirs \cup {EdRoot \o <<chSlash>> \o f.name : f \in {g \in made : g.isDir}} |->
        IF d = EdRoot THEN EdBaseDirs[d] \cup made
        ELSE IF d \in DOMAIN EdBaseDirs THEN EdBaseDirs[d] ELSE {}]

\* fs.go:91-131: the entries of a directory, none when it is not one
EdListDir(files, d) ==
    IF EdClean(d) \in DOMAIN files THEN files[EdClean(d)] ELSE {}

\* part_000:303-339: the candidates for the line up to the cursor
Candidates(files, line) ==
    LET parts == Fields(line)
        trailing == line # <<>> /\ line[Len(line)] = chSpace
        lastWord == IF parts # <<>> /\ ~trailing THEN parts[Len(parts)] ELSE <<>>
        isCmd == parts = <<>> \/ (Len(parts) = 1 /\ ~trailing)
        sp == PathSplit(lastWord)
    IN [lastWord |-> lastWord,
        cands |->
          IF isCmd
          THEN {f.name : f \in {g \in EdListDir(files, EdBinDir) \cup EdListDir(files, EdUsrBin) :
                                    IsPrefix(lastWord, g.name)}}
          ELSE {PathJoin(sp.dir, IF f.isDir THEN Append(f.name, chSlash) ELSE f.name) :
                   f \in {g \in EdListDir(files, EdAbs(sp.dir)) : IsPrefix(sp.file, g.name)}}]

\* part_000:353-363: the one candidate is cut at len(lastWord), its runes
\* are appended to the buffer and its length in bytes is added to the
\* cursor; cutting behind the end of the candidate is a run-time error
Complete(t, view) ==
    LET r == Candidates(t.files, RuneBytes(SubSeq(view, 1, t.cursor)))
        c == CHOOSE x \in r.cands : TRUE
        completion == SubSeq(c, Len(r.lastWord) + 1, Len(c))
        dirEnd == c # <<>> /\ c[Len(c)] = chSlash
    IN IF Cardinality(r.cands) # 1 THEN t
       ELSE IF Len(r.lastWord) > Len(c) THEN [t EXCEPT !.panic = "slice bounds"]
       ELSE [t EXCEPT !.buffer = @ \o DecodeRunes(completion)
                                   \o (IF dirEnd THEN <<>> ELSE <<chSpace>>),
                      !.cursor = @ + Len(completion) + (IF dirEnd THEN 0 ELSE 1)]

\* the keys that are typed, and the lines typed before the first step
EdKeys == {103, 32, 46, 47, 102, 111}
EdTyped == {<<>>, <<103, 32>>, <<103, 32, 46, 47, 102>>}

\* the main loop takes the next key
EdOn == term.on /\ term.panic = "" /\ fuel > 0

\* part_000:286-297: a printable rune is put in at the cursor
EdKey(r) ==
    /\ EdOn /\ IsPrint(r)
    /\ term' =
         IF term.cursor > Len(term.buffer)
         THEN [term EXCEPT !.panic = "slice bounds"]
         ELSE [term EXCEPT
                 !.buffer = SubSeq(@, 1, term.cursor) \o <<r>>
                            \o SubSeq(@, term.cursor + 1, Len(@)),
                 !.cursor = @ + 1]
    /\ fuel' = fuel - 1
    /\ UNCHANGED EdVars

\* part_000:275-281
EdBackspace ==
    /\ EdOn
    /\ term' =
         IF term.cursor <= 0 THEN term
         ELSE IF term.cursor > Len(term.buffer)
         THEN [term EXCEPT !.panic = "slice bounds"]
         ELSE [term EXCEPT
                 !.buffer = SubSeq(@, 1, term.cursor - 1)
                            \o SubSeq(@, term.cursor + 1, Len(@)),
                 !.cursor = @ - 1]
    /\ fuel' = fuel - 1
    /\ UNCHANGED EdVars

\* part_000:227-238: ESC [ C and ESC [ D
EdRight ==
    /\ EdOn
    /\ term' = IF term.cursor < Len(term.buffer)
               THEN [term EXCEPT !.cursor = @ + 1] ELSE term
    /\ fuel' = fuel - 1
    /\ UNCHANGED EdVars

EdLeft ==
    /\ EdOn
    /\ term' = IF term.cursor > 0 THEN [term EXCEPT !.cursor = @ - 1] ELSE term
    /\ fuel' = fuel - 1
    /\ UNCHANGED EdVars

\* part_000:199-212: ESC [ A
EdUp ==
    /\ EdOn
    /\ LET idx == IF term.histIdx = -1 THEN Len(term.History) ELSE term.histIdx
           line == DecodeRunes(term.History[idx])
       IN term' = IF term.History = <<>> THEN term
                  ELSE IF idx > 0
                  THEN [term EXCEPT !.histIdx = idx - 1, !.buffer = line,
                                    !.cursor = Len(line)]
                  ELSE [term EXCEPT !.histIdx = idx]
    /\ fuel' = fuel - 1
    /\ UNCHANGED EdVars

\* part_000:213-226: ESC [ B
EdDown ==
    /\ EdOn
    /\ term' = IF term.histIdx < Len(term.History)
               THEN IF term.histIdx + 1 >= Len(term.History)
                    THEN [term EXCEPT !.histIdx = Len(term.History),
                                      !.buffer = <<>>, !.cursor = 0]
                    ELSE LET line == DecodeRunes(term.History[term.histIdx + 2])
                         IN [term EXCEPT !.histIdx = @ + 1, !.buffer = line,
                                         !.cursor = Len(line)]
               ELSE term
    /\ fuel' = fuel - 1
    /\ UNCHANGED EdVars

\* part_000:242-246: Ctrl-C
EdCtrlC ==
    /\ EdOn
    /\ term' = [term EXCEPT !.buffer = <<>>, !.cursor = 0]
    /\ fuel' = fuel - 1
    /\ UNCHANGED EdVars

\* part_000:255-273: Enter.  The lines of this model name grep or no
\* command, and execPipeline leaves the files and the editor as they are.
EdEnter ==
    /\ EdOn
    /\ LET cmd == RuneBytes(term.buffer)
           h   == HistoryAppend(term.History, cmd)
       IN term' = IF ~AllSpace(cmd)
                  THEN [term EXCEPT !.History = h, !.histIdx = Len(h),
                                    !.buffer = <<>>, !.cursor = 0]
                  ELSE [term EXCEPT !.buffer = <<>>, !.cursor = 0]
    /\ fuel' = fuel - 1
    /\ UNCHANGED EdVars

\* a rune that t.buffer[:t.cursor] shows behind the end of the buffer: the
\* zero of a new array, or a rune of an earlier line
EdStale == {0, 111}

\* part_000:283-284, 302-371: Tab.  t.buffer[:t.cursor] with the cursor
\* behind the end of the buffer is a run-time error when the cursor is
\* behind the capacity too, and else shows what the array holds there;
\* the capacity is what append made it.
EdTab ==
    /\ EdOn
    /\ \/ /\ term.cursor <= Len(term.buffer)
          /\ term' = [Complete(term, term.buffer) EXCEPT !.tabbed = TRUE]
       \/ /\ term.cursor > Len(term.buffer)
          /\ \/ term' = [term EXCEPT !.panic = "slice bounds", !.tabbed = TRUE]
             \/ \E z \in EdStale :
                  term' = [Complete(term, term.buffer
                                \o [i \in 1..(term.cursor - Len(term.buffer)) |-> z])
                             EXCEPT !.tabbed = TRUE]
    /\ fuel' = fuel - 1
    /\ UNCHANGED EdVars

InitEd ==
    /\ BaseFS = InitBaseFS
    /\ BaseFSDirCache = InitDirCache
    /\ overlay = <<>>
    /\ cwd = pRoot
    /\ heap = InitHeap
    /\ last = NoCall
    /\ fuel = MaxEdKeys
    /\ active = {}
    /\ tasks = <<>>
    /\ pl = Idle
    /\ conn = Idle
    /\ \E made \in EdMade, b \in EdTyped :
          term = [on |-> TRUE, buffer |-> b, cursor |-> Len(b), History |-> <<>>,
                  histIdx |-> -1, files |-> EdFiles(made), panic |-> "",
                  tabbed |-> FALSE]

NextEd ==
    \/ \E r \in EdKeys : EdKey(r)
    \/ EdBackspace
    \/ EdRight
    \/ EdLeft
    \/ EdUp
    \/ EdDown
    \/ EdCtrlC
    \/ EdEnter
    \/ EdTab

SpecEd == InitEd /\ [][NextEd]_vars

\* 0 <= cursor <= len(buffer)
C39_CursorInside ==
    term.on => (0 <= term.cursor /\ term.cursor <= Len(term.buffer))

\* no key has indexed outside the buffer or a candidate
C39_NoPanic == term.on => term.panic = ""

\* C39: in every reachable state of the line editor 0 <= cursor <=
\* len(buffer), after any sequence of printable keys, backspace, arrow
\* keys, Ctrl-C, Enter and Tab completion, and no key sequence makes the
\* editor index outside the buffer or a candidate string.
C39_LineEditor == C39_CursorInside /\ C39_NoPanic

\* the same as long as Tab has not been pressed
C39_WithoutTab == (term.on /\ ~term.tabbed) => C39_LineEditor

\* the same for the completion of a command name
C39_CommandTab ==
    [][(term.on /\ C39_LineEditor /\ Len(Fields(RuneBytes(term.buffer))) <= 1
          /\ chSpace \notin {term.buffer[i] : i \in DOMAIN term.buffer})
        => (C39_LineEditor)']_vars


-----------------------------------------------------------------------------
(* The offsets of WriteAt (SpecOff): srv_sftp.go:94-171 on the length and  *)
(* the capacity of the content alone, for every offset of the int type.    *)
(* int and int64 are scaled from 64 to IntBits bits, as MaxFileSize is     *)
(* scaled.  pl.made is the largest capacity a make of the call asked for.  *)

IntBits == 8
MaxOffWrites == 2
MaxData == 2

IntMin == -(2 ^ (IntBits - 1))
IntMax == 2 ^ (IntBits - 1) - 1

\* the sum of two ints, as the machine computes it
WrapInt(x) == ((x - IntMin) % (2 ^ IntBits)) + IntMin

\* srv_sftp.go:113-119: the slice that phase one makes for a path that has
\* no overlay entry, from the length of the BaseFS content
OffInitCap(baseLen, n, off) ==
    IF WrapInt(off + n) > baseLen THEN WrapInt(off + n) ELSE baseLen

\* srv_sftp.go:138-170 on the slice c: the quota test, the growth, the
\* reslice and the copy
OffPhaseTwo(c, n, off) ==
    LET end == WrapInt(off + n)
        nc  == GrowCap(c.cap, end)
        c2  == IF end > c.cap THEN [len |-> c.len, cap |-> nc] ELSE c
        c3  == IF end > c2.len THEN [c2 EXCEPT !.len = end] ELSE c2
    IN IF WriteAtOverQuota(end) THEN [err |-> "quota", c |-> c, made |-> 0]
       ELSE IF end > c.cap /\ c.len > nc
       THEN [err |-> "panic", c |-> c, made |-> nc]         \* make: len > cap
       ELSE IF end > c2.len /\ end > c2.cap
       THEN [err |-> "panic", c |-> c2, made |-> 0]         \* Content[:end]
       ELSE IF off < 0 \/ off > c3.len
       THEN [err |-> "panic", c |-> c3, made |-> 0]         \* Content[off:]
       ELSE [err |-> "ok", c |-> c3, made |-> IF end > c.cap THEN nc ELSE 0]

\* srv_sftp.go:94-171: the two phases; the make of phase one is not
\* preceded by a test of the offset
OffWriteAt(c, inOverlay, n, off) ==
    LET c1 == IF inOverlay THEN c
              ELSE [len |-> c.len, cap |-> OffInitCap(c.len, n, off)]
        r  == OffPhaseTwo(c1, n, off)
    IN [r EXCEPT !.made = IF ~inOverlay /\ c1.cap > @ THEN c1.cap ELSE @]

OffVars == <<BaseFS, BaseFSDirCache, overlay, cwd, heap, last, active, tasks,
             term, conn>>

\* one WriteAt.  A make of more than the machine can give ends the
\* process; whether a capacity above the quota is that much depends on the
\* machine.
OffWrite(n, off) ==
    /\ pl.on /\ pl.err # "panic" /\ fuel > 0
    /\ LET r == OffWriteAt(pl.c, pl.inOverlay, n, off)
       IN \/ pl' = [pl EXCEPT !.c = r.c, !.inOverlay = TRUE, !.err = r.err,
                              !.made = r.made, !.n = n, !.off = off]
          \/ /\ r.made > MaxFileSize
             /\ pl' = [pl EXCEPT !.err = "panic", !.made = r.made,
                                 !.n = n, !.off = off]
    /\ fuel' = fuel - 1
    /\ UNCHANGED OffVars

\* the path is new, or a BaseFS file of two bytes
InitOff ==
    /\ BaseFS = InitBaseFS
    /\ BaseFSDirCache = InitDirCache
    /\ overlay = <<>>
    /\ cwd = pRoot
    /\ heap = InitHeap
    /\ last = NoCall
    /\ fuel = MaxOffWrites
    /\ active = {}
    /\ tasks = <<>>
    /\ term = Idle
    /\ conn = Idle
    /\ \E l \in {0, 2} :
          pl = [on |-> TRUE, c |-> [len |-> l, cap |-> l], inOverlay |-> FALSE,
                err |-> "none", made |-> 0, n |-> 0, off |-> 0]

NextOff == \E n \in 0..MaxData, off \in IntMin..IntMax : OffWrite(n, off)

SpecOff == InitOff /\ [][NextOff]_vars

\* the call returned no error only for an offset and an end inside the file
C40_OkInRange ==
    (pl.on /\ pl.err = "ok") => (0 <= pl.off /\ pl.off + pl.n <= MaxFileSize)

\* no index or slice expression of the call was out of range
C40_NoPanic == pl.on => pl.err # "panic"

\* no make of the call asked for more than the quota
C40_CapWithinQuota == pl.on => pl.made <= MaxFileSize

\* C40: for every off, negative values and values where off + len(data)
\* wraps included, WriteAt either succeeds with 0 <= off and off + len(data)
\* <= MAX_FILE_SIZE or returns an error; it never indexes content out of
\* range and never allocates a capacity larger than MAX_FILE_SIZE.
C40_EveryOffset == C40_OkInRange /\ C40_NoPanic /\ C40_CapWithinQuota

\* the offsets from 0 on whose end does not wrap, on a path that has an
\* overlay entry
C40_OnOverlay ==
    [][(pl.on /\ pl.inOverlay /\ pl'.off >= 0 /\ pl'.off + pl'.n <= IntMax)
        => (C40_EveryOffset)']_vars

\* the offsets whose end is inside the quota, on every path
C40_InsideQuota ==
    [][(pl.on /\ pl'.off >= 0 /\ pl'.off + pl'.n <= MaxFileSize)
        => (C40_EveryOffset)']_vars

=============================================================================
